---- MODULE Spec2Model ----
(***************************************************************************)
(* Model of src/app.py: the deployment launcher.                           *)
(*                                                                         *)
(* deployment_state is the process-wide DeploymentState singleton.  Every  *)
(* HTTP request is one handler thread r \in Reqs; a streaming handler is a *)
(* generator whose position is pc[r].  The main command of a leader runs   *)
(* in its own worker thread (run_command_async), whose position is wpc[r]. *)
(* One step of the model is one access to shared state (the tracker, the   *)
(* output queue, the result holder, a file, a child process); what a       *)
(* handler does between two such accesses is local and folded into them.   *)
(*                                                                         *)
(* A log record is a triple <<type, tag, n>>: its 'type' field, and its    *)
(* message abstracted to a tag and a number (an index, a line, a code).    *)
(***************************************************************************)
EXTENDS Integers, Sequences, FiniteSets, TLC

\* ---------------------------------------------------------------- bounds
NReq == 3            \* request handler threads of a behaviour
MaxPre == 2          \* configured pre_commands
MaxPost == 2         \* configured post_commands
MaxSvc == 1          \* configured services
MaxOut == 1          \* output lines the child processes of one run write
MaxPodChanges == 1   \* polls of one run that return a changed text
MaxLog == 3          \* records the tracker holds before a start()
MaxUn == 2           \* uninstall_commands of a configuration
MaxStr == 2          \* characters of a string of a request body
MaxPieces == 4       \* pieces a command string is put together from
MaxHost == 5         \* characters of a generated Host header
MaxUrl == 2          \* pieces a service URL template is put together from
MaxList == 2         \* services of a list given to substitute_service_urls

\* ------------------------------------------------------- program constants
None == -1           \* result_holder['returncode'] before the worker sets it
PodCap == 15         \* pod lines shown per poll
TailWindow == 20     \* elements of the split output shown after a failure

Reqs == 1..NReq
\* exit codes of a child process: success and two failures
ExitCodes == {0, 1, 2}
\* the non-empty texts a status poll returns, one line each
PodTexts == {1, 2}
Statuses == {"idle", "running", "success", "failed", "timeout", "unknown"}
Terminal == {"success", "failed", "timeout", "unknown"}

VARIABLES
  deployment_state,  \* the DeploymentState singleton
  cfg,               \* the loaded configuration (DEPLOY_TYPE resolved or not)
  body,              \* the strings a POST /deploy body and the configuration hold
  fn_call,           \* a call of a helper function: its arguments and its result
  dry_run_info,      \* per request: the would_execute object of its dry-run response
  state_file,        \* STATE_FILE: "absent" or "deployed"
  env_file,          \* the .env secrets file: "absent" or "written"
  kind,              \* per request: the route it entered
  pc,                \* per request: position in its handler
  out,               \* per request: the data frames it has emitted
  todo,              \* per request: records of consecutive emit_log calls not yet made
  loc,               \* per request: the handler's local variables
  wpc,               \* per leader: position of its worker thread
  wloc,              \* per leader: the worker's locals (output_lines, exit code)
  result_holder,     \* per leader: the dict shared with its worker
  log_queue,         \* per leader: the queue.Queue shared with its worker
  spawned,           \* history: per request, the Popen calls of its commands
  exits,             \* history: per request, how each of its commands ended
  effects,           \* history: per request, the state-changing calls it made
  hist,              \* history: per run (start() call), the records appended
  ended              \* history: per run, the status of the first finish()

vars == <<deployment_state, cfg, body, fn_call, dry_run_info, state_file, env_file, kind, pc, out, todo, loc,
          wpc, wloc, result_holder, log_queue, spawned, exits, effects, hist,
          ended>>

files == <<state_file, env_file>>
worker == <<wpc, wloc, result_holder, log_queue>>

\* ------------------------------------------------------------- sequences
Min(a, b) == IF a < b THEN a ELSE b
Max(a, b) == IF a > b THEN a ELSE b

\* Python's s[i:], i a 0-based index, i >= 0
From(s, i) == SubSeq(s, i + 1, Len(s))

\* Python's s[:n]
Upto(s, n) == SubSeq(s, 1, Min(n, Len(s)))

\* Python's s[-n:]
LastN(s, n) == SubSeq(s, Max(1, Len(s) - n + 1), Len(s))

Last(s) == s[Len(s)]

Rec(type, tag, n) == <<type, tag, n>>
TypeOf(rec) == rec[1]

\* --------------------------------------------------------- DeploymentState
InitialState ==
  [is_running |-> FALSE, started_at |-> 0, finished_at |-> 0,
   status |-> "idle", logs |-> <<>>]

\* a start() that keeps the records of the run before
startKeepsLogs(ds) ==
  [ds EXCEPT !.is_running = TRUE, !.started_at = @ + 1, !.finished_at = 0,
             !.status = "running"]

\* started_at counts the start() calls (each reads a later clock value), 0 is
\* None; finished_at is 0 for None and 1 for a time.
start(ds) ==
  [ds EXCEPT !.is_running = TRUE, !.started_at = @ + 1, !.finished_at = 0,
             !.status = "running", !.logs = <<>>]

add_log(ds, log_entry) == [ds EXCEPT !.logs = Append(@, log_entry)]

\* a finish that leaves is_running as it is
finishKeepsRunning(ds, st) ==
  [ds EXCEPT !.finished_at = 1, !.status = st]

\* a finish that also empties the logs
finishClearsLogs(ds, st) ==
  [ds EXCEPT !.is_running = FALSE, !.finished_at = 1, !.status = st, !.logs = <<>>]

finish(ds, st) ==
  [ds EXCEPT !.is_running = FALSE, !.finished_at = 1, !.status = st]

get_logs(ds) == ds.logs

\* the run the tracker is in: the number of start() calls so far
Epoch == deployment_state.started_at

\* ------------------------------------------------------------------ state
\* A configuration: whether the deployment type resolves, whether its
\* working_dir exists (without it every Popen in it raises and the .env file
\* cannot be written), the lengths of its pre_commands, post_commands and
\* services (each empty or full), the number of its uninstall_commands, and
\* the most lines the children of its commands write in one run, and
\* whether kubectl reaches a cluster (without one every status poll returns
\* the empty text) and how many pods the larger of its listings has.
Config(configured, cwd_ok, nPre, nPost, nSvc) ==
  [configured |-> configured, cwd_ok |-> cwd_ok,
   nPre |-> nPre, nPost |-> nPost, nSvc |-> nSvc, nUn |-> 0,
   lines |-> MaxOut, cluster |-> TRUE, pods |-> 1]

Unconfigured == Config(FALSE, TRUE, 0, 0, 0)

\* pre-commands and no post-commands
Configs ==
  {Unconfigured, Config(TRUE, TRUE, 0, 0, 0), Config(TRUE, TRUE, MaxPre, 0, 0),
   Config(TRUE, FALSE, MaxPre, 0, 0)}

\* post-commands and services, no pre-commands
ConfigsPost == {Config(TRUE, TRUE, 0, MaxPost, MaxSvc)}

\* a configuration with n uninstall_commands
UninstallConfig(cwd_ok, n) == [Config(TRUE, cwd_ok, 0, 0, 0) EXCEPT !.nUn = n]

\* for /uninstall: no deployment type, no uninstall commands, or MaxUn of
\* them with and without the working directory
ConfigsUninstall ==
  {Unconfigured, UninstallConfig(TRUE, 0), UninstallConfig(TRUE, MaxUn),
   UninstallConfig(FALSE, MaxUn)}

\* a main command only, whose child writes up to n lines
MainConfig(n) == [Config(TRUE, TRUE, 0, 0, 0) EXCEPT !.lines = n]

ConfigsMain == {MainConfig(MaxOut + 1)}

\* no deployment type: a run ends at the configuration check
ConfigsConc == {Unconfigured}

InitLoc ==
  [last_index |-> 0, idx |-> 0, nread |-> 0, polls_without_change |-> 0,
   last_pod_status |-> 0, pod_changes |-> 0, timed_out |-> FALSE,
   final |-> "idle", rc_seen |-> None, att |-> 0, att_running |-> FALSE,
   all_success |-> TRUE, data |-> "ok", pod_status |-> 0]

InitWloc == [output_lines |-> <<>>, code |-> None]

\* A captured output is the list of its lines, or the text of an exception.
NoOutput == [exc |-> FALSE, lines |-> <<>>]

InitHolder == [done |-> FALSE, returncode |-> None, stdout |-> NoOutput]

\* The strings of a POST /deploy body (apiKey, the values of inputData in
\* order, version) and of the configuration (working_dir, and the text that
\* every configured command has).  A string is a sequence of characters.
DefaultBody ==
  [api_key |-> <<"a">>, input_data |-> <<>>, version |-> <<>>,
   working_dir |-> <<"a">>, command |-> <<"a">>]

\* no helper function is being called.  A call holds the name of the
\* function, its argument, the probes of docker compose that succeed
\* (v2: `docker compose version`, v1: `docker-compose version`), and, once
\* it has returned, its result; none says that the result is None.
NoCall ==
  [fn |-> "none", arg |-> <<>>, v2 |-> FALSE, v1 |-> FALSE,
   returned |-> FALSE, none |-> FALSE, result |-> <<>>]

\* no dry-run response
NoInfo == [dry_run |-> FALSE]

\* the handlers before any request has arrived
InitHandlers ==
  /\ dry_run_info = [r \in Reqs |-> NoInfo]
  /\ kind = [r \in Reqs |-> "none"]
  /\ pc = [r \in Reqs |-> "new"]
  /\ out = [r \in Reqs |-> <<>>]
  /\ todo = [r \in Reqs |-> <<>>]
  /\ loc = [r \in Reqs |-> InitLoc]
  /\ wpc = [r \in Reqs |-> "w_none"]
  /\ wloc = [r \in Reqs |-> InitWloc]
  /\ result_holder = [r \in Reqs |-> InitHolder]
  /\ log_queue = [r \in Reqs |-> <<>>]
  /\ spawned = [r \in Reqs |-> <<>>]
  /\ exits = [r \in Reqs |-> <<>>]
  /\ effects = [r \in Reqs |-> {}]
  /\ hist = [e \in 1..NReq |-> <<>>]
  /\ ended = [e \in 1..NReq |-> "none"]

InitRest ==
  /\ state_file = "absent"
  /\ env_file = "absent"
  /\ body = DefaultBody
  /\ fn_call = NoCall
  /\ InitHandlers

Init ==
  /\ deployment_state = InitialState
  /\ cfg \in Configs
  /\ InitRest

\* ------------------------------------------------------- emit_log / finish
\* an emit_log that frames the record without adding it to the tracker
EmitLogUnlogged(r, rec) ==
  /\ deployment_state' = deployment_state
  /\ out' = [out EXCEPT ![r] = Append(@, rec)]
  /\ effects' = [effects EXCEPT ![r] = @ \cup {"add_log"}]
  /\ hist' = hist

\* emit_log(log_entry) by request r: add_log, then the frame on r's stream
EmitLog(r, rec) ==
  /\ deployment_state' = add_log(deployment_state, rec)
  /\ out' = [out EXCEPT ![r] = Append(@, rec)]
  /\ effects' = [effects EXCEPT ![r] = @ \cup {"add_log"}]
  /\ hist' = IF Epoch \in DOMAIN hist
               THEN [hist EXCEPT ![Epoch] = Append(@, rec)]
               ELSE hist

\* the next of a run of consecutive `yield emit_log(...)` statements
Emit(r) ==
  /\ todo[r] # <<>>
  /\ EmitLog(r, Head(todo[r]))
  /\ todo' = [todo EXCEPT ![r] = Tail(@)]
  /\ UNCHANGED <<cfg, body, fn_call, dry_run_info, files, kind, pc, loc, worker, spawned, exits, ended>>

\* deployment_state.finish(final) and the end of the generator
Finish(r) ==
  /\ pc[r] = "finish"
  /\ todo[r] = <<>>
  /\ deployment_state' = finish(deployment_state, loc[r].final)
  /\ effects' = [effects EXCEPT ![r] = @ \cup {"finish"}]
  /\ ended' = IF Epoch \in DOMAIN ended /\ ended[Epoch] = "none"
                THEN [ended EXCEPT ![Epoch] = loc[r].final]
                ELSE ended
  /\ pc' = [pc EXCEPT ![r] = "done"]
  /\ UNCHANGED <<cfg, body, fn_call, dry_run_info, files, kind, out, todo, loc, worker, spawned, exits, hist>>

\* ---------------------------------------------------------------- arrival
\* Requests arrive in the order of their numbers, on one of the routes K
\* with one of the bodies B.  The routes: POST /deploy/stream, GET
\* /deploy/logs, POST /deploy without and with dryRun, POST /uninstall.  The
\* bodies: "ok" supplies apiKey or inputData, "empty" is a JSON object with
\* neither, "null" is a body for which request.get_json() returns None or
\* raises, so that the handler's outer except clause runs.
Routes == {"stream", "logs", "deploy", "dry_run", "uninstall"}
Bodies == {"ok", "empty", "null"}

Arrive(r, K, B) ==
  /\ pc[r] = "new"
  /\ \A q \in Reqs : q < r => pc[q] # "new"
  /\ \E k \in K, b \in B :
       /\ k \in {"logs", "uninstall"} => b = "ok"
       /\ kind' = [kind EXCEPT ![r] = k]
       /\ loc' = [loc EXCEPT ![r].data = b,
                             ![r].final = IF k = "stream" /\ b = "null"
                                            THEN "failed" ELSE @]
       /\ CASE k = "logs" ->
                 /\ pc' = [pc EXCEPT ![r] = "l_replay"]
                 /\ UNCHANGED <<out, todo>>
            [] k = "uninstall" ->
                 /\ pc' = [pc EXCEPT ![r] = "u_guard"]
                 /\ UNCHANGED <<out, todo>>
            [] k = "stream" /\ b = "ok" ->
                 /\ pc' = [pc EXCEPT ![r] = "check"]
                 /\ UNCHANGED <<out, todo>>
            [] k = "stream" /\ b = "empty" ->
                 /\ pc' = [pc EXCEPT ![r] = "done"]
                 /\ out' = [out EXCEPT ![r] = <<Rec("error", "required", 0)>>]
                 /\ todo' = todo
            [] k = "stream" /\ b = "null" ->
                 /\ pc' = [pc EXCEPT ![r] = "finish"]
                 /\ todo' = [todo EXCEPT ![r] = <<Rec("error", "exception", 0)>>]
                 /\ out' = out
            [] k \in {"deploy", "dry_run"} /\ b = "ok" ->
                 /\ pc' = [pc EXCEPT ![r] = "d_config"]
                 /\ UNCHANGED <<out, todo>>
            [] k \in {"deploy", "dry_run"} /\ b = "empty" ->
                 /\ pc' = [pc EXCEPT ![r] = "done"]
                 /\ out' = [out EXCEPT ![r] = <<Rec("json", "required", 400)>>]
                 /\ todo' = todo
            [] k \in {"deploy", "dry_run"} /\ b = "null" ->
                 /\ pc' = [pc EXCEPT ![r] = "done"]
                 /\ out' = [out EXCEPT ![r] = <<Rec("json", "exception", 500)>>]
                 /\ todo' = todo
  /\ UNCHANGED <<deployment_state, cfg, body, fn_call, dry_run_info, files, worker,
                 spawned, exits, effects, hist, ended>>

\* ------------------------------------------------- GET /deploy/logs
LogsReplay(r) ==
  /\ pc[r] = "l_replay"
  /\ out' = [out EXCEPT ![r] = @ \o get_logs(deployment_state)]
  /\ loc' = [loc EXCEPT ![r].last_index = Len(get_logs(deployment_state)),
                        ![r].att = Epoch,
                        ![r].att_running = deployment_state.is_running]
  /\ pc' = [pc EXCEPT ![r] = "l_loop"]
  /\ UNCHANGED <<deployment_state, cfg, body, fn_call, dry_run_info, files, kind, todo, worker, spawned, exits,
                 effects, hist, ended>>

LogsLoop(r) ==
  /\ pc[r] = "l_loop"
  /\ pc' = [pc EXCEPT ![r] = IF deployment_state.is_running
                               THEN "l_poll" ELSE "l_final"]
  /\ UNCHANGED <<deployment_state, cfg, body, fn_call, dry_run_info, files, kind, out, todo, loc, worker,
                 spawned, exits, effects, hist, ended>>

\* one poll of a follower: the records past last_index, if there are any
Poll(r) ==
  LET current_logs == get_logs(deployment_state) IN
  /\ out' = [out EXCEPT ![r] = @ \o From(current_logs, loc[r].last_index)]
  /\ loc' = [loc EXCEPT ![r].last_index =
                 IF Len(current_logs) > @ THEN Len(current_logs) ELSE @]

LogsPoll(r) ==
  /\ pc[r] = "l_poll"
  /\ Poll(r)
  /\ pc' = [pc EXCEPT ![r] = "l_loop"]
  /\ UNCHANGED <<deployment_state, cfg, body, fn_call, dry_run_info, files, kind, todo, worker, spawned, exits,
                 effects, hist, ended>>

LogsFinal(r) ==
  /\ pc[r] = "l_final"
  /\ out' = [out EXCEPT ![r] =
               @ \o From(get_logs(deployment_state), loc[r].last_index)]
  /\ pc' = [pc EXCEPT ![r] = "l_end"]
  /\ UNCHANGED <<deployment_state, cfg, body, fn_call, dry_run_info, files, kind, todo, loc, worker,
                 spawned, exits, effects, hist, ended>>

LogsEnd(r) ==
  /\ pc[r] = "l_end"
  /\ out' = [out EXCEPT ![r] =
               Append(@, Rec("stream_end", deployment_state.status, 0))]
  /\ pc' = [pc EXCEPT ![r] = "done"]
  /\ UNCHANGED <<deployment_state, cfg, body, fn_call, dry_run_info, files, kind, todo, loc, worker,
                 spawned, exits, effects, hist, ended>>

\* ------------------------------------------ POST /deploy/stream: entry
CheckRunning(r) ==
  /\ pc[r] = "check"
  /\ IF deployment_state.is_running
       THEN /\ pc' = [pc EXCEPT ![r] = "f_replay"]
            /\ out' = [out EXCEPT ![r] = Append(@, Rec("info", "already", 0))]
       ELSE /\ pc' = [pc EXCEPT ![r] = "start"]
            /\ out' = out
  /\ UNCHANGED <<deployment_state, cfg, body, fn_call, dry_run_info, files, kind, todo, loc, worker,
                 spawned, exits, effects, hist, ended>>

\* a follower that replays through emit_log: every record it replays is
\* appended once more
FollowerReplayEmits(r) ==
  /\ pc[r] = "f_replay"
  /\ out' = [out EXCEPT ![r] = @ \o get_logs(deployment_state)]
  /\ deployment_state' = [deployment_state EXCEPT !.logs = @ \o @]
  /\ effects' = [effects EXCEPT ![r] =
                   IF get_logs(deployment_state) # <<>> THEN @ \cup {"add_log"} ELSE @]
  /\ loc' = [loc EXCEPT ![r].last_index = Len(get_logs(deployment_state)),
                        ![r].att = Epoch,
                        ![r].att_running = deployment_state.is_running]
  /\ pc' = [pc EXCEPT ![r] = "f_loop"]
  /\ UNCHANGED <<cfg, body, fn_call, dry_run_info, files, kind, todo, worker, spawned, exits, hist, ended>>

FollowerReplay(r) ==
  /\ pc[r] = "f_replay"
  /\ out' = [out EXCEPT ![r] = @ \o get_logs(deployment_state)]
  /\ loc' = [loc EXCEPT ![r].last_index = Len(get_logs(deployment_state)),
                        ![r].att = Epoch,
                        ![r].att_running = deployment_state.is_running]
  /\ pc' = [pc EXCEPT ![r] = "f_loop"]
  /\ UNCHANGED <<deployment_state, cfg, body, fn_call, dry_run_info, files, kind, todo, worker, spawned, exits,
                 effects, hist, ended>>

FollowerLoop(r) ==
  /\ pc[r] = "f_loop"
  /\ pc' = [pc EXCEPT ![r] = IF deployment_state.is_running
                               THEN "f_poll" ELSE "f_final"]
  /\ UNCHANGED <<deployment_state, cfg, body, fn_call, dry_run_info, files, kind, out, todo, loc, worker,
                 spawned, exits, effects, hist, ended>>

FollowerPoll(r) ==
  /\ pc[r] = "f_poll"
  /\ Poll(r)
  /\ pc' = [pc EXCEPT ![r] = "f_loop"]
  /\ UNCHANGED <<deployment_state, cfg, body, fn_call, dry_run_info, files, kind, todo, worker, spawned, exits,
                 effects, hist, ended>>

FollowerFinal(r) ==
  /\ pc[r] = "f_final"
  /\ out' = [out EXCEPT ![r] =
               @ \o From(get_logs(deployment_state), loc[r].last_index)]
  /\ pc' = [pc EXCEPT ![r] = "done"]
  /\ UNCHANGED <<deployment_state, cfg, body, fn_call, dry_run_info, files, kind, todo, loc, worker,
                 spawned, exits, effects, hist, ended>>

\* ------------------------------------------ POST /deploy/stream: leader
Start(r) ==
  /\ pc[r] = "start"
  /\ deployment_state' = start(deployment_state)
  /\ effects' = [effects EXCEPT ![r] = @ \cup {"start"}]
  /\ loc' = [loc EXCEPT ![r].att = Epoch + 1]
  /\ pc' = [pc EXCEPT ![r] = "config"]
  /\ UNCHANGED <<cfg, body, fn_call, dry_run_info, files, kind, out, todo, worker, spawned, exits, hist, ended>>

\* a configuration check that goes on without a deployment type
LoadConfigContinues(r) ==
  /\ pc[r] = "config"
  /\ todo' = [todo EXCEPT ![r] =
       <<Rec("start", "", 0), Rec("section", "env", 0),
         Rec("info", "writing_env", 0)>>]
  /\ pc' = [pc EXCEPT ![r] = "env"]
  /\ loc' = loc
  /\ UNCHANGED <<deployment_state, cfg, body, fn_call, dry_run_info, files, kind, out, worker, spawned, exits,
                 effects, hist, ended>>

LoadConfig(r) ==
  /\ pc[r] = "config"
  /\ IF cfg.configured
       THEN /\ todo' = [todo EXCEPT ![r] =
                 <<Rec("start", "", 0), Rec("section", "env", 0),
                   Rec("info", "writing_env", 0)>>]
            /\ pc' = [pc EXCEPT ![r] = "env"]
            /\ loc' = loc
       ELSE /\ todo' = [todo EXCEPT ![r] = <<Rec("error", "no_config", 0)>>]
            /\ pc' = [pc EXCEPT ![r] = "finish"]
            /\ loc' = [loc EXCEPT ![r].final = "failed"]
  /\ UNCHANGED <<deployment_state, cfg, body, fn_call, dry_run_info, files, kind, out, worker, spawned, exits,
                 effects, hist, ended>>

\* a failed write_env_file that ends the run as failed
WriteEnvAborts(r) ==
  /\ pc[r] = "env"
  /\ todo[r] = <<>>
  /\ \E ok \in BOOLEAN :
       /\ ok => cfg.cwd_ok
       /\ env_file' = IF ok THEN "written" ELSE env_file
       /\ effects' = [effects EXCEPT ![r] = IF ok THEN @ \cup {"write_env"} ELSE @]
       /\ todo' = [todo EXCEPT ![r] =
            IF ok THEN <<Rec("success", "env", 0)>> ELSE <<Rec("warning", "env", 0)>>]
       /\ loc' = [loc EXCEPT ![r].idx = 1,
                             ![r].final = IF ok THEN @ ELSE "failed"]
       /\ pc' = [pc EXCEPT ![r] = IF ok THEN "pre" ELSE "finish"]
  /\ UNCHANGED <<deployment_state, cfg, body, fn_call, dry_run_info, state_file, kind, out, worker, spawned, exits,
                 hist, ended>>

\* write_env_file: the file is written, or the write fails and None is returned
WriteEnv(r) ==
  /\ pc[r] = "env"
  /\ todo[r] = <<>>
  /\ \E ok \in BOOLEAN :
       /\ ok => cfg.cwd_ok
       /\ env_file' = IF ok THEN "written" ELSE env_file
       /\ effects' = [effects EXCEPT ![r] = IF ok THEN @ \cup {"write_env"} ELSE @]
       /\ todo' = [todo EXCEPT ![r] =
            IF ok THEN <<Rec("success", "env", 0)>> ELSE <<Rec("warning", "env", 0)>>]
  /\ loc' = [loc EXCEPT ![r].idx = 1]
  /\ pc' = [pc EXCEPT ![r] = "pre"]
  /\ UNCHANGED <<deployment_state, cfg, body, fn_call, dry_run_info, state_file, kind, out, worker, spawned, exits,
                 hist, ended>>

\* the head of `for idx, pre_cmd in enumerate(pre_commands, 1)`, and what
\* follows the loop
PreLoop(r) ==
  /\ pc[r] = "pre"
  /\ todo[r] = <<>>
  /\ IF loc[r].idx <= cfg.nPre
       THEN /\ todo' = [todo EXCEPT ![r] =
                 <<Rec("section", "pre", loc[r].idx), Rec("command", "pre", loc[r].idx)>>]
            /\ pc' = [pc EXCEPT ![r] = "pre_spawn"]
       ELSE /\ todo' = [todo EXCEPT ![r] =
                 <<Rec("section", "main", 0), Rec("command", "main", 0)>>]
            /\ pc' = [pc EXCEPT ![r] = "main"]
  /\ UNCHANGED <<deployment_state, cfg, body, fn_call, dry_run_info, files, kind, out, loc, worker, spawned, exits,
                 effects, hist, ended>>

\* subprocess.Popen of a pre-command: the child starts, or Popen raises
PreSpawn(r) ==
  /\ pc[r] = "pre_spawn"
  /\ todo[r] = <<>>
  /\ \E ok \in BOOLEAN :
       /\ ok => cfg.cwd_ok
       /\ IF ok
            THEN /\ exits' = exits
                 /\ loc' = loc
                 /\ pc' = [pc EXCEPT ![r] = "pre_read"]
                 /\ todo' = todo
            ELSE /\ exits' = [exits EXCEPT ![r] = Append(@, <<"pre", loc[r].idx, None>>)]
                 /\ loc' = [loc EXCEPT ![r].final = "failed"]
                 /\ pc' = [pc EXCEPT ![r] = "finish"]
                 /\ todo' = [todo EXCEPT ![r] = <<Rec("error", "pre_error", 0)>>]
  /\ spawned' = [spawned EXCEPT ![r] = Append(@, <<"pre", loc[r].idx>>)]
  /\ UNCHANGED <<deployment_state, cfg, body, fn_call, dry_run_info, files, kind, out, worker, effects,
                 hist, ended>>

\* the lines the children of r's run have written so far
Written(r) == loc[r].nread + Len(wloc[r].output_lines)

\* the child writes one more line, which is emitted
PreLine(r) ==
  /\ pc[r] = "pre_read"
  /\ Written(r) < cfg.lines
  /\ EmitLog(r, Rec("output", "pre", loc[r].nread + 1))
  /\ loc' = [loc EXCEPT ![r].nread = @ + 1]
  /\ UNCHANGED <<cfg, body, fn_call, dry_run_info, files, kind, pc, todo, worker, spawned, exits, ended>>

\* a pre-command loop that goes on after a non-zero exit code
PreExitContinues(r) ==
  /\ pc[r] = "pre_read"
  /\ \E code \in ExitCodes :
       /\ exits' = [exits EXCEPT ![r] = Append(@, <<"pre", loc[r].idx, code>>)]
       /\ todo' = [todo EXCEPT ![r] =
            IF code # 0 THEN <<Rec("error", "pre_exit", code)>> ELSE <<>>]
  /\ loc' = [loc EXCEPT ![r].idx = @ + 1]
  /\ pc' = [pc EXCEPT ![r] = "pre"]
  /\ UNCHANGED <<deployment_state, cfg, body, fn_call, dry_run_info, files, kind, out, worker, spawned,
                 effects, hist, ended>>

\* the child closes its output and exits with some code
PreExit(r) ==
  /\ pc[r] = "pre_read"
  /\ \E code \in ExitCodes :
       /\ exits' = [exits EXCEPT ![r] = Append(@, <<"pre", loc[r].idx, code>>)]
       /\ IF code # 0
            THEN /\ todo' = [todo EXCEPT ![r] = <<Rec("error", "pre_exit", code)>>]
                 /\ loc' = [loc EXCEPT ![r].final = "failed"]
                 /\ pc' = [pc EXCEPT ![r] = "finish"]
            ELSE /\ todo' = todo
                 /\ loc' = [loc EXCEPT ![r].idx = @ + 1]
                 /\ pc' = [pc EXCEPT ![r] = "pre"]
  /\ UNCHANGED <<deployment_state, cfg, body, fn_call, dry_run_info, files, kind, out, worker, spawned,
                 effects, hist, ended>>

\* cmd_thread.start() and the locals of the monitoring loop
MainStart(r) ==
  /\ pc[r] = "main"
  /\ todo[r] = <<>>
  /\ result_holder' = [result_holder EXCEPT ![r] = InitHolder]
  /\ log_queue' = [log_queue EXCEPT ![r] = <<>>]
  /\ wpc' = [wpc EXCEPT ![r] = "w_popen"]
  /\ wloc' = [wloc EXCEPT ![r] = InitWloc]
  /\ loc' = [loc EXCEPT ![r].polls_without_change = 0,
                        ![r].last_pod_status = 0,
                        ![r].pod_status = 0,
                        ![r].timed_out = FALSE]
  /\ pc' = [pc EXCEPT ![r] = "m_drain"]
  /\ UNCHANGED <<deployment_state, cfg, body, fn_call, dry_run_info, files, kind, out, todo, spawned, exits,
                 effects, hist, ended>>

\* ------------------------------------------------------ run_command_async
WPopen(r) ==
  /\ wpc[r] = "w_popen"
  /\ \E ok \in BOOLEAN :
       /\ ok => cfg.cwd_ok
       /\ IF ok
            THEN /\ exits' = exits
                 /\ wpc' = [wpc EXCEPT ![r] = "w_read"]
            ELSE /\ exits' = [exits EXCEPT ![r] = Append(@, <<"main", 0, None>>)]
                 /\ wpc' = [wpc EXCEPT ![r] = "x_returncode"]
  /\ spawned' = [spawned EXCEPT ![r] = Append(@, <<"main", 0>>)]
  /\ UNCHANGED <<deployment_state, cfg, body, fn_call, dry_run_info, files, kind, pc, out, todo, loc, wloc,
                 result_holder, log_queue, effects, hist, ended>>

\* the child writes one more line: output_lines.append and output_queue.put
WLine(r) ==
  /\ wpc[r] = "w_read"
  /\ Written(r) < cfg.lines
  /\ LET line == Len(wloc[r].output_lines) + 1 IN
       /\ wloc' = [wloc EXCEPT ![r].output_lines = Append(@, line)]
       /\ log_queue' = [log_queue EXCEPT ![r] = Append(@, Rec("output", "main", line))]
  /\ UNCHANGED <<deployment_state, cfg, body, fn_call, dry_run_info, files, kind, pc, out, todo, loc, wpc,
                 result_holder, spawned, exits, effects, hist, ended>>

\* the child closes its output and exits: process.wait()
WWait(r) ==
  /\ wpc[r] = "w_read"
  /\ \E code \in ExitCodes :
       /\ wloc' = [wloc EXCEPT ![r].code = code]
       /\ exits' = [exits EXCEPT ![r] = Append(@, <<"main", 0, code>>)]
  /\ wpc' = [wpc EXCEPT ![r] = "w_returncode"]
  /\ UNCHANGED <<deployment_state, cfg, body, fn_call, dry_run_info, files, kind, pc, out, todo, loc,
                 result_holder, log_queue, spawned, effects, hist, ended>>

\* a worker that sets done where it should write the exit code
WReturncodeLate(r) ==
  /\ wpc[r] = "w_returncode"
  /\ result_holder' = [result_holder EXCEPT ![r].done = TRUE]
  /\ wpc' = [wpc EXCEPT ![r] = "w_stdout"]
  /\ UNCHANGED <<deployment_state, cfg, body, fn_call, dry_run_info, files, kind, pc, out, todo, loc, wloc,
                 log_queue, spawned, exits, effects, hist, ended>>

WReturncode(r) ==
  /\ wpc[r] = "w_returncode"
  /\ result_holder' = [result_holder EXCEPT ![r].returncode = wloc[r].code]
  /\ wpc' = [wpc EXCEPT ![r] = "w_stdout"]
  /\ UNCHANGED <<deployment_state, cfg, body, fn_call, dry_run_info, files, kind, pc, out, todo, loc, wloc,
                 log_queue, spawned, exits, effects, hist, ended>>

WStdout(r) ==
  /\ wpc[r] = "w_stdout"
  /\ result_holder' = [result_holder EXCEPT ![r].stdout =
                         [exc |-> FALSE, lines |-> wloc[r].output_lines]]
  /\ wpc' = [wpc EXCEPT ![r] = "w_done"]
  /\ UNCHANGED <<deployment_state, cfg, body, fn_call, dry_run_info, files, kind, pc, out, todo, loc, wloc,
                 log_queue, spawned, exits, effects, hist, ended>>

WDone(r) ==
  /\ wpc[r] = "w_done"
  /\ result_holder' = [result_holder EXCEPT ![r].done = TRUE]
  /\ wpc' = [wpc EXCEPT ![r] = "w_end"]
  /\ UNCHANGED <<deployment_state, cfg, body, fn_call, dry_run_info, files, kind, pc, out, todo, loc, wloc,
                 log_queue, spawned, exits, effects, hist, ended>>

\* the except branch: returncode, stdout, done, and then the queue
XReturncode(r) ==
  /\ wpc[r] = "x_returncode"
  /\ result_holder' = [result_holder EXCEPT ![r].returncode = 1]
  /\ wpc' = [wpc EXCEPT ![r] = "x_stdout"]
  /\ UNCHANGED <<deployment_state, cfg, body, fn_call, dry_run_info, files, kind, pc, out, todo, loc, wloc,
                 log_queue, spawned, exits, effects, hist, ended>>

XStdout(r) ==
  /\ wpc[r] = "x_stdout"
  /\ result_holder' = [result_holder EXCEPT ![r].stdout =
                         [exc |-> TRUE, lines |-> <<>>]]
  /\ wpc' = [wpc EXCEPT ![r] = "x_done"]
  /\ UNCHANGED <<deployment_state, cfg, body, fn_call, dry_run_info, files, kind, pc, out, todo, loc, wloc,
                 log_queue, spawned, exits, effects, hist, ended>>

XDone(r) ==
  /\ wpc[r] = "x_done"
  /\ result_holder' = [result_holder EXCEPT ![r].done = TRUE]
  /\ wpc' = [wpc EXCEPT ![r] = "x_put"]
  /\ UNCHANGED <<deployment_state, cfg, body, fn_call, dry_run_info, files, kind, pc, out, todo, loc, wloc,
                 log_queue, spawned, exits, effects, hist, ended>>

XPut(r) ==
  /\ wpc[r] = "x_put"
  /\ log_queue' = [log_queue EXCEPT ![r] = Append(@, Rec("error", "cmd_error", 0))]
  /\ wpc' = [wpc EXCEPT ![r] = "w_end"]
  /\ UNCHANGED <<deployment_state, cfg, body, fn_call, dry_run_info, files, kind, pc, out, todo, loc, wloc,
                 result_holder, spawned, exits, effects, hist, ended>>

\* ------------------------------------------------- the monitoring loop
\* a drain that takes the message off the queue and drops it
DrainDrops(r, next) ==
  IF log_queue[r] # <<>>
    THEN /\ log_queue' = [log_queue EXCEPT ![r] = Tail(@)]
         /\ pc' = pc
         /\ UNCHANGED <<deployment_state, out, effects, hist>>
    ELSE /\ pc' = [pc EXCEPT ![r] = next]
         /\ UNCHANGED <<deployment_state, out, effects, hist, log_queue>>

\* `while not log_queue.empty()`: one message is taken and emitted, or the
\* queue is seen empty
Drain(r, next) ==
  IF log_queue[r] # <<>>
    THEN /\ EmitLog(r, Head(log_queue[r]))
         /\ log_queue' = [log_queue EXCEPT ![r] = Tail(@)]
         /\ pc' = pc
    ELSE /\ pc' = [pc EXCEPT ![r] = next]
         /\ UNCHANGED <<deployment_state, out, effects, hist, log_queue>>

MonDrain(r) ==
  /\ pc[r] = "m_drain"
  /\ todo[r] = <<>>
  /\ Drain(r, "m_check")
  /\ UNCHANGED <<cfg, body, fn_call, dry_run_info, files, kind, todo, loc, wpc, wloc, result_holder,
                 spawned, exits, ended>>

\* pod_status.split('\n') of the status text p: text 1 lists one pod, text 2
\* lists cfg.pods of them
PodLines(p) == [i \in 1..(IF p = 2 THEN cfg.pods ELSE 1) |-> Rec("pod", "", p)]

\* a poll that emits every non-empty status text, new or not
PodRecsAlways(p, last_pod_status) ==
  IF p # 0
    THEN <<Rec("pods", "", 0)>> \o Upto(PodLines(p), PodCap)
    ELSE <<>>

\* what a status poll returning the text p emits; 0 is the empty text, and
\* stands for a poll that raised as well
PodRecs(p, last_pod_status) ==
  IF p # 0 /\ p # last_pod_status
    THEN <<Rec("pods", "", 0)>> \o Upto(PodLines(p), PodCap)
    ELSE <<>>

TimeoutRecs(elapsed) ==
  IF elapsed
    THEN <<Rec("info", "mon_timeout", 0), Rec("info", "check_status", 0)>>
    ELSE <<>>

\* a loop that is left at the first cycle that finds the worker done
MonCheckNoDebounce(r) ==
  /\ pc[r] = "m_check"
  /\ IF result_holder[r].done /\ loc[r].polls_without_change + 1 >= 1
       THEN /\ loc' = [loc EXCEPT ![r].polls_without_change = @ + 1]
            /\ pc' = [pc EXCEPT ![r] = "m_join"]
            /\ UNCHANGED <<todo, effects>>
       ELSE \E p \in {0} \cup PodTexts, elapsed \in BOOLEAN :
            LET changed == p # 0 /\ p # loc[r].last_pod_status IN
            /\ p # 0 => cfg.cluster
            /\ changed => loc[r].pod_changes < MaxPodChanges
            /\ todo' = [todo EXCEPT ![r] =
                 PodRecs(p, loc[r].last_pod_status) \o TimeoutRecs(elapsed)]
            /\ loc' = [loc EXCEPT
                 ![r].polls_without_change =
                    IF result_holder[r].done THEN @ + 1 ELSE @,
                 ![r].pod_status = p,
                 ![r].last_pod_status = IF changed THEN p ELSE @,
                 ![r].pod_changes = IF changed THEN @ + 1 ELSE @,
                 ![r].timed_out = elapsed]
            /\ effects' = [effects EXCEPT ![r] = @ \cup {"poll"}]
            /\ pc' = [pc EXCEPT ![r] = IF elapsed THEN "m_join" ELSE "m_drain"]
  /\ UNCHANGED <<deployment_state, cfg, body, fn_call, dry_run_info, files, kind, out, worker, spawned, exits,
                 hist, ended>>

\* `if result_holder['done']`: the second time the loop is left.  Otherwise
\* the status poll, and `if time.time() - start_time > max_monitor_time`:
\* the loop is left timed out, or sleeps and goes round.
MonCheck(r) ==
  /\ pc[r] = "m_check"
  /\ IF result_holder[r].done /\ loc[r].polls_without_change + 1 >= 2
       THEN /\ loc' = [loc EXCEPT ![r].polls_without_change = @ + 1]
            /\ pc' = [pc EXCEPT ![r] = "m_join"]
            /\ UNCHANGED <<todo, effects>>
       ELSE \E p \in {0} \cup PodTexts, elapsed \in BOOLEAN :
            LET changed == p # 0 /\ p # loc[r].last_pod_status IN
            /\ p # 0 => cfg.cluster
            /\ changed => loc[r].pod_changes < MaxPodChanges
            /\ todo' = [todo EXCEPT ![r] =
                 PodRecs(p, loc[r].last_pod_status) \o TimeoutRecs(elapsed)]
            /\ loc' = [loc EXCEPT
                 ![r].polls_without_change =
                    IF result_holder[r].done THEN @ + 1 ELSE @,
                 ![r].pod_status = p,
                 ![r].last_pod_status = IF changed THEN p ELSE @,
                 ![r].pod_changes = IF changed THEN @ + 1 ELSE @,
                 ![r].timed_out = elapsed]
            /\ effects' = [effects EXCEPT ![r] = @ \cup {"poll"}]
            /\ pc' = [pc EXCEPT ![r] = IF elapsed THEN "m_join" ELSE "m_drain"]
  /\ UNCHANGED <<deployment_state, cfg, body, fn_call, dry_run_info, files, kind, out, worker, spawned, exits,
                 hist, ended>>

\* cmd_thread.join(timeout=...): returns when the worker has ended or the
\* timeout has passed, whichever is first.  pod_status is not read after
\* the loop.
MonJoin(r) ==
  /\ pc[r] = "m_join"
  /\ todo[r] = <<>>
  /\ loc' = [loc EXCEPT ![r].pod_status = 0]
  /\ pc' = [pc EXCEPT ![r] = "m_fdrain"]
  /\ UNCHANGED <<deployment_state, cfg, body, fn_call, dry_run_info, files, kind, out, todo, worker,
                 spawned, exits, effects, hist, ended>>

FinalDrain(r) ==
  /\ pc[r] = "m_fdrain"
  /\ todo[r] = <<>>
  /\ Drain(r, "m_status")
  /\ UNCHANGED <<cfg, body, fn_call, dry_run_info, files, kind, todo, loc, wpc, wloc, result_holder,
                 spawned, exits, ended>>

\* a timeout branch that reports the run as failed
StatusTimeoutAsFailed(r) ==
  /\ pc[r] = "m_status"
  /\ IF loc[r].timed_out /\ result_holder[r].returncode = None
       THEN /\ todo' = [todo EXCEPT ![r] =
                 <<Rec("info", "background", 0), Rec("command", "watch", 0),
                   Rec("complete", "", 0)>>]
            /\ loc' = [loc EXCEPT ![r].final = "failed", ![r].rc_seen = None]
            /\ pc' = [pc EXCEPT ![r] = "finish"]
       ELSE /\ todo' = todo
            /\ loc' = loc
            /\ pc' = [pc EXCEPT ![r] = "m_status2"]
  /\ UNCHANGED <<deployment_state, cfg, body, fn_call, dry_run_info, files, kind, out, worker, spawned, exits,
                 effects, hist, ended>>

\* ---------------------------------------------------- report final status
\* `if timed_out and result_holder['returncode'] is None`
StatusTimeout(r) ==
  /\ pc[r] = "m_status"
  /\ IF loc[r].timed_out /\ result_holder[r].returncode = None
       THEN /\ todo' = [todo EXCEPT ![r] =
                 <<Rec("info", "background", 0), Rec("command", "watch", 0),
                   Rec("complete", "", 0)>>]
            /\ loc' = [loc EXCEPT ![r].final = "timeout", ![r].rc_seen = None]
            /\ pc' = [pc EXCEPT ![r] = "finish"]
       ELSE /\ todo' = todo
            /\ loc' = loc
            /\ pc' = [pc EXCEPT ![r] = "m_status2"]
  /\ UNCHANGED <<deployment_state, cfg, body, fn_call, dry_run_info, files, kind, out, worker, spawned, exits,
                 effects, hist, ended>>

\* `elif result_holder['returncode'] == 0`
StatusSuccess(r) ==
  /\ pc[r] = "m_status2"
  /\ IF result_holder[r].returncode = 0
       THEN /\ todo' = [todo EXCEPT ![r] =
                 IF cfg.nPost > 0 THEN <<Rec("section", "post", 0)>> ELSE <<>>]
            /\ loc' = [loc EXCEPT ![r].idx = 1, ![r].rc_seen = 0]
            /\ pc' = [pc EXCEPT ![r] = "post"]
       ELSE /\ todo' = todo
            /\ loc' = loc
            /\ pc' = [pc EXCEPT ![r] = "m_status3"]
  /\ UNCHANGED <<deployment_state, cfg, body, fn_call, dry_run_info, files, kind, out, worker, spawned, exits,
                 effects, hist, ended>>

\* `elif result_holder['returncode'] is None`, else the failure branch
StatusUnknown(r) ==
  /\ pc[r] = "m_status3"
  /\ IF result_holder[r].returncode = None
       THEN /\ todo' = [todo EXCEPT ![r] =
                 <<Rec("info", "unknown", 0), Rec("command", "kubectl", 0),
                   Rec("complete", "", 0)>>]
            /\ loc' = [loc EXCEPT ![r].final = "unknown"]
            /\ pc' = [pc EXCEPT ![r] = "finish"]
       ELSE /\ todo' = todo
            /\ loc' = loc
            /\ pc' = [pc EXCEPT ![r] = "m_failed"]
  /\ UNCHANGED <<deployment_state, cfg, body, fn_call, dry_run_info, files, kind, out, worker, spawned, exits,
                 effects, hist, ended>>

NonBlank(line) == line # 0

\* error_output.split('\n')[-20:], the blank elements dropped.  The joined
\* lines end with a newline each, so the split ends with an empty element.
TailRecs(stdout) ==
  IF stdout.exc THEN <<Rec("error", "exc_text", 0)>>
  ELSE IF stdout.lines = <<>> THEN <<>>
  ELSE LET shown == SelectSeq(LastN(stdout.lines \o <<0>>, TailWindow), NonBlank)
       IN [i \in 1..Len(shown) |-> Rec("error", "tail", shown[i])]

\* a failure branch that records the failed deployment in the state file
StatusFailedSaves(r) ==
  /\ pc[r] = "m_failed"
  /\ todo' = [todo EXCEPT ![r] =
       <<Rec("error", "main_exit", result_holder[r].returncode)>>
         \o TailRecs(result_holder[r].stdout)]
  /\ loc' = [loc EXCEPT ![r].final = "failed",
                        ![r].rc_seen = result_holder[r].returncode]
  /\ state_file' = "deployed"
  /\ effects' = [effects EXCEPT ![r] = @ \cup {"save_state"}]
  /\ pc' = [pc EXCEPT ![r] = "finish"]
  /\ UNCHANGED <<deployment_state, cfg, body, fn_call, dry_run_info, env_file, kind, out,
                 worker, spawned, exits, hist, ended>>

\* result_holder.get('stdout'), result_holder['returncode'] and the records
StatusFailed(r) ==
  /\ pc[r] = "m_failed"
  /\ todo' = [todo EXCEPT ![r] =
       <<Rec("error", "main_exit", result_holder[r].returncode)>>
         \o TailRecs(result_holder[r].stdout)]
  /\ loc' = [loc EXCEPT ![r].final = "failed",
                        ![r].rc_seen = result_holder[r].returncode]
  /\ pc' = [pc EXCEPT ![r] = "finish"]
  /\ UNCHANGED <<deployment_state, cfg, body, fn_call, dry_run_info, files, kind, out, worker, spawned, exits,
                 effects, hist, ended>>

\* ------------------------------------------------------------ post-commands
ServiceRecs(ip) ==
  IF cfg.nSvc = 0 THEN <<>>
  ELSE <<Rec("section", "services", 0)>>
         \o [k \in 1..cfg.nSvc |-> Rec("service", IF ip THEN "ip" ELSE "no_ip", k)]

\* the head of `for idx, post_cmd in enumerate(post_commands, 1)`, and what
\* follows the loop
PostLoop(r) ==
  /\ pc[r] = "post"
  /\ todo[r] = <<>>
  /\ IF loc[r].idx <= cfg.nPost
       THEN /\ todo' = [todo EXCEPT ![r] =
                 <<Rec("info", "post", loc[r].idx), Rec("command", "post", loc[r].idx)>>]
            /\ pc' = [pc EXCEPT ![r] = "post_spawn"]
       ELSE /\ todo' = [todo EXCEPT ![r] = <<Rec("section", "complete", 0)>>]
            /\ pc' = [pc EXCEPT ![r] = "services"]
  /\ UNCHANGED <<deployment_state, cfg, body, fn_call, dry_run_info, files, kind, out, loc, worker, spawned, exits,
                 effects, hist, ended>>

PostSpawn(r) ==
  /\ pc[r] = "post_spawn"
  /\ todo[r] = <<>>
  /\ \E ok \in BOOLEAN :
       /\ ok => cfg.cwd_ok
       /\ IF ok
            THEN /\ exits' = exits
                 /\ loc' = loc
                 /\ pc' = [pc EXCEPT ![r] = "post_read"]
                 /\ todo' = todo
            ELSE /\ exits' = [exits EXCEPT ![r] = Append(@, <<"post", loc[r].idx, None>>)]
                 /\ loc' = [loc EXCEPT ![r].idx = @ + 1]
                 /\ pc' = [pc EXCEPT ![r] = "post"]
                 /\ todo' = [todo EXCEPT ![r] = <<Rec("warning", "post_error", 0)>>]
  /\ spawned' = [spawned EXCEPT ![r] = Append(@, <<"post", loc[r].idx>>)]
  /\ UNCHANGED <<deployment_state, cfg, body, fn_call, dry_run_info, files, kind, out, worker, effects,
                 hist, ended>>

PostLine(r) ==
  /\ pc[r] = "post_read"
  /\ Written(r) < cfg.lines
  /\ EmitLog(r, Rec("output", "post", loc[r].nread + 1))
  /\ loc' = [loc EXCEPT ![r].nread = @ + 1]
  /\ UNCHANGED <<cfg, body, fn_call, dry_run_info, files, kind, pc, todo, worker, spawned, exits, ended>>

\* a post-command loop that stops at a non-zero exit code
PostExitAborts(r) ==
  /\ pc[r] = "post_read"
  /\ \E code \in ExitCodes :
       /\ exits' = [exits EXCEPT ![r] = Append(@, <<"post", loc[r].idx, code>>)]
       /\ todo' = [todo EXCEPT ![r] =
            IF code # 0 THEN <<Rec("warning", "post_exit", code)>> ELSE <<>>]
       /\ loc' = [loc EXCEPT ![r].idx = IF code # 0 THEN cfg.nPost + 1 ELSE @ + 1]
  /\ pc' = [pc EXCEPT ![r] = "post"]
  /\ UNCHANGED <<deployment_state, cfg, body, fn_call, dry_run_info, files, kind, out, worker, spawned,
                 effects, hist, ended>>

PostExit(r) ==
  /\ pc[r] = "post_read"
  /\ \E code \in ExitCodes :
       /\ exits' = [exits EXCEPT ![r] = Append(@, <<"post", loc[r].idx, code>>)]
       /\ todo' = [todo EXCEPT ![r] =
            IF code # 0 THEN <<Rec("warning", "post_exit", code)>> ELSE <<>>]
  /\ loc' = [loc EXCEPT ![r].idx = @ + 1]
  /\ pc' = [pc EXCEPT ![r] = "post"]
  /\ UNCHANGED <<deployment_state, cfg, body, fn_call, dry_run_info, files, kind, out, worker, spawned,
                 effects, hist, ended>>

\* get_host_ip() finds the address or not; the service records follow
Services(r) ==
  /\ pc[r] = "services"
  /\ todo[r] = <<>>
  /\ \E ip \in BOOLEAN :
       /\ (cfg.nSvc = 0) => ip
       /\ todo' = [todo EXCEPT ![r] = ServiceRecs(ip)]
  /\ effects' = [effects EXCEPT ![r] = @ \cup {"host_ip"}]
  /\ pc' = [pc EXCEPT ![r] = "save"]
  /\ UNCHANGED <<deployment_state, cfg, body, fn_call, dry_run_info, files, kind, out, loc, worker, spawned, exits,
                 hist, ended>>

\* a success branch that ends without the complete record
SaveStateNoComplete(r) ==
  /\ pc[r] = "save"
  /\ todo[r] = <<>>
  /\ \E ok \in BOOLEAN :
       /\ state_file' = IF ok THEN "deployed" ELSE state_file
       /\ effects' = [effects EXCEPT ![r] = IF ok THEN @ \cup {"save_state"} ELSE @]
  /\ todo' = todo
  /\ loc' = [loc EXCEPT ![r].final = "success"]
  /\ pc' = [pc EXCEPT ![r] = "finish"]
  /\ UNCHANGED <<deployment_state, cfg, body, fn_call, dry_run_info, env_file, kind, out, worker, spawned, exits,
                 hist, ended>>

\* save_persistent_state: the file is written, or the write fails
SaveState(r) ==
  /\ pc[r] = "save"
  /\ todo[r] = <<>>
  /\ \E ok \in BOOLEAN :
       /\ state_file' = IF ok THEN "deployed" ELSE state_file
       /\ effects' = [effects EXCEPT ![r] = IF ok THEN @ \cup {"save_state"} ELSE @]
  /\ todo' = [todo EXCEPT ![r] = <<Rec("complete", "", 0)>>]
  /\ loc' = [loc EXCEPT ![r].final = "success"]
  /\ pc' = [pc EXCEPT ![r] = "finish"]
  /\ UNCHANGED <<deployment_state, cfg, body, fn_call, dry_run_info, env_file, kind, out, worker, spawned, exits,
                 hist, ended>>

\* ------------------------------------------------------- POST /uninstall
\* The frames of /uninstall are plain yields: they go to the client only.
Frames(r, recs) == out' = [out EXCEPT ![r] = @ \o recs]

UVars == <<deployment_state, cfg, body, fn_call, dry_run_info, kind, todo, worker, hist, ended>>

\* a guard that removes the .env file before it refuses
UGuardCleans(r) ==
  /\ pc[r] = "u_guard"
  /\ IF state_file # "deployed"
       THEN /\ Frames(r, <<Rec("error", "nothing", 0)>>)
            /\ pc' = [pc EXCEPT ![r] = "done"]
            /\ env_file' = "absent"
            /\ effects' = [effects EXCEPT ![r] = @ \cup {"cleanup_env"}]
       ELSE /\ Frames(r, <<Rec("start", "uninstall", 0)>>)
            /\ pc' = [pc EXCEPT ![r] = IF cfg.configured /\ cfg.nUn > 0
                                         THEN "u_loop" ELSE "done"]
            /\ UNCHANGED <<env_file, effects>>
  /\ loc' = [loc EXCEPT ![r].idx = 1, ![r].all_success = TRUE]
  /\ UNCHANGED <<UVars, state_file, spawned, exits>>

\* the three guards: the state file says deployed, a deployment type
\* resolves, it has uninstall commands; then the start frame
UGuard(r) ==
  /\ pc[r] = "u_guard"
  /\ IF state_file # "deployed"
       THEN /\ Frames(r, <<Rec("error", "nothing", 0)>>)
            /\ pc' = [pc EXCEPT ![r] = "done"]
       ELSE IF ~cfg.configured
       THEN /\ Frames(r, <<Rec("error", "no_type", 0)>>)
            /\ pc' = [pc EXCEPT ![r] = "done"]
       ELSE IF cfg.nUn = 0
       THEN /\ Frames(r, <<Rec("error", "no_commands", 0)>>)
            /\ pc' = [pc EXCEPT ![r] = "done"]
       ELSE /\ Frames(r, <<Rec("start", "uninstall", 0)>>)
            /\ pc' = [pc EXCEPT ![r] = "u_loop"]
  /\ loc' = [loc EXCEPT ![r].idx = 1, ![r].all_success = TRUE]
  /\ UNCHANGED <<UVars, files, spawned, exits, effects>>

\* the head of the loop over uninstall_commands: the frames of the next
\* command, or the frames that open the cleanup
ULoop(r) ==
  /\ pc[r] = "u_loop"
  /\ IF loc[r].idx <= cfg.nUn
       THEN /\ Frames(r, <<Rec("section", "command", loc[r].idx),
                          Rec("command", "un", loc[r].idx)>>)
            /\ pc' = [pc EXCEPT ![r] = "u_spawn"]
       ELSE /\ Frames(r, <<Rec("section", "cleanup", 0), Rec("info", "removing", 0)>>)
            /\ pc' = [pc EXCEPT ![r] = "u_cleanup"]
  /\ UNCHANGED <<UVars, files, loc, spawned, exits, effects>>

\* subprocess.Popen of the command: the child starts, or Popen raises
USpawn(r) ==
  /\ pc[r] = "u_spawn"
  /\ \E ok \in BOOLEAN :
       /\ ok => cfg.cwd_ok
       /\ IF ok
            THEN /\ pc' = [pc EXCEPT ![r] = "u_read"]
                 /\ UNCHANGED <<out, loc, exits>>
            ELSE /\ Frames(r, <<Rec("error", "un_error", 0)>>)
                 /\ exits' = [exits EXCEPT ![r] = Append(@, <<"un", loc[r].idx, None>>)]
                 /\ loc' = [loc EXCEPT ![r].idx = @ + 1, ![r].all_success = FALSE]
                 /\ pc' = [pc EXCEPT ![r] = "u_loop"]
  /\ spawned' = [spawned EXCEPT ![r] = Append(@, <<"un", loc[r].idx>>)]
  /\ UNCHANGED <<UVars, files, effects>>

\* the child writes one more line
ULine(r) ==
  /\ pc[r] = "u_read"
  /\ loc[r].nread < MaxOut
  /\ Frames(r, <<Rec("output", "un", loc[r].nread + 1)>>)
  /\ loc' = [loc EXCEPT ![r].nread = @ + 1]
  /\ UNCHANGED <<UVars, files, pc, spawned, exits, effects>>

\* a loop that returns at the first non-zero exit code
UExitAborts(r) ==
  /\ pc[r] = "u_read"
  /\ \E code \in ExitCodes :
       /\ exits' = [exits EXCEPT ![r] = Append(@, <<"un", loc[r].idx, code>>)]
       /\ IF code # 0
            THEN /\ Frames(r, <<Rec("error", "un_exit", code),
                               Rec("complete", "success", 0)>>)
                 /\ loc' = [loc EXCEPT ![r].idx = @ + 1, ![r].all_success = FALSE]
                 /\ pc' = [pc EXCEPT ![r] = "done"]
            ELSE /\ Frames(r, <<Rec("success", "un", 0)>>)
                 /\ loc' = [loc EXCEPT ![r].idx = @ + 1]
                 /\ pc' = [pc EXCEPT ![r] = "u_loop"]
  /\ UNCHANGED <<UVars, files, spawned, effects>>

\* process.wait() and the exit code: an error frame and all_success = False,
\* or a success frame; the loop goes on either way
UExit(r) ==
  /\ pc[r] = "u_read"
  /\ \E code \in ExitCodes :
       /\ exits' = [exits EXCEPT ![r] = Append(@, <<"un", loc[r].idx, code>>)]
       /\ IF code # 0
            THEN /\ Frames(r, <<Rec("error", "un_exit", code)>>)
                 /\ loc' = [loc EXCEPT ![r].idx = @ + 1, ![r].all_success = FALSE]
            ELSE /\ Frames(r, <<Rec("success", "un", 0)>>)
                 /\ loc' = [loc EXCEPT ![r].idx = @ + 1]
  /\ pc' = [pc EXCEPT ![r] = "u_loop"]
  /\ UNCHANGED <<UVars, files, spawned, effects>>

\* cleanup_env_file: the .env file is removed or was not there (True), or
\* os.remove raises (False)
UCleanup(r) ==
  /\ pc[r] = "u_cleanup"
  /\ \E ok \in BOOLEAN :
       /\ (env_file = "absent") => ok
       /\ env_file' = IF ok THEN "absent" ELSE env_file
       /\ Frames(r, <<IF ok THEN Rec("success", "secrets", 0)
                            ELSE Rec("warning", "secrets", 0)>>)
  /\ effects' = [effects EXCEPT ![r] = @ \cup {"cleanup_env"}]
  /\ pc' = [pc EXCEPT ![r] = "u_clear"]
  /\ UNCHANGED <<UVars, state_file, loc, spawned, exits>>

\* the frame that closes the stream of /uninstall
UComplete == Rec("complete", "success", 1)

\* clear_persistent_state (the state file is removed, or os.remove raises
\* and the exception is logged), then the closing frames
UClear(r) ==
  /\ pc[r] = "u_clear"
  /\ \E ok \in BOOLEAN :
       /\ (state_file = "absent") => ok
       /\ state_file' = IF ok THEN "absent" ELSE state_file
       /\ effects' = [effects EXCEPT ![r] =
            @ \cup {"clear_state"} \cup (IF ok THEN {} ELSE {"clear_failed"})]
  /\ Frames(r, <<Rec("section", "complete", 0),
                 IF loc[r].all_success THEN Rec("success", "all", 0)
                                       ELSE Rec("info", "warnings", 0),
                 UComplete>>)
  /\ pc' = [pc EXCEPT ![r] = "done"]
  /\ UNCHANGED <<UVars, env_file, loc, spawned, exits>>

\* ---------------------------------------------------------- POST /deploy
\* str.replace(old, new) for a non-empty old: the occurrences of old, found
\* from the left and not overlapping, become new
StartsWith(s, p) == Len(p) <= Len(s) /\ SubSeq(s, 1, Len(p)) = p

RECURSIVE Replace(_, _, _)
Replace(s, old, new) ==
  IF s = <<>> THEN <<>>
  ELSE IF StartsWith(s, old)
         THEN new \o Replace(SubSeq(s, Len(old) + 1, Len(s)), old, new)
         ELSE <<Head(s)>> \o Replace(Tail(s), old, new)

Stars == <<"*", "*", "*">>

Hidden == <<"*", "*", "*", "h", "i", "d", "d", "e", "n", "*", "*", "*">>

\* the loop over input_data.items(): each non-empty value, in the order of
\* the dict, is replaced by '***' in what the earlier replacements left
RECURSIVE MaskValues(_, _)
MaskValues(masked, values) ==
  IF values = <<>> THEN masked
  ELSE MaskValues(IF Head(values) # <<>>
                    THEN Replace(masked, Head(values), Stars) ELSE masked,
                  Tail(values))

\* mask_secrets(cmd_str).  The two re.sub calls rewrite what follows the
\* literal text "password"; no string of the model contains it, so they
\* leave the string as it is.
mask_secrets(b, cmd_str) ==
  MaskValues(IF b.api_key # <<>> THEN Replace(cmd_str, b.api_key, Stars) ELSE cmd_str,
             b.input_data)

\* the JSON of a dry run: would_execute, with the environment as the list of
\* its values (the hidden api key, then VERSION)
DryRunInfo(b, c) ==
  [dry_run |-> TRUE,
   version |-> b.version,
   working_directory |-> b.working_dir,
   environment |-> (IF b.api_key # <<>> THEN <<Hidden>> ELSE <<>>) \o <<b.version>>,
   pre_commands |-> [k \in 1..c.nPre |-> mask_secrets(b, b.command)],
   main_command |-> mask_secrets(b, b.command),
   post_commands |-> [k \in 1..c.nPost |-> mask_secrets(b, b.command)]]

DVars == <<deployment_state, cfg, body, fn_call, files, kind, todo, worker, effects, hist, ended>>

\* the JSON response of /deploy and its end
Respond(r, tag, code) ==
  /\ out' = [out EXCEPT ![r] = <<Rec("json", tag, code)>>]
  /\ pc' = [pc EXCEPT ![r] = "done"]

\* load_config and the deployment type: 500 without one; then the dry-run
\* branch or the pre-commands
DeployConfig(r) ==
  /\ pc[r] = "d_config"
  /\ IF ~cfg.configured
       THEN Respond(r, "no_config", 500)
       ELSE /\ pc' = [pc EXCEPT ![r] = IF kind[r] = "dry_run" THEN "d_dry" ELSE "d_run"]
            /\ out' = out
  /\ loc' = [loc EXCEPT ![r].idx = 1]
  /\ UNCHANGED <<DVars, dry_run_info, spawned, exits>>

\* a dry run that executes the first command of the configuration
DeployDryExecutes(r) ==
  /\ pc[r] = "d_dry"
  /\ dry_run_info' = [dry_run_info EXCEPT ![r] = DryRunInfo(body, cfg)]
  /\ spawned' = [spawned EXCEPT ![r] = Append(@, <<"dmain", 0>>)]
  /\ Respond(r, "dry_run", 200)
  /\ UNCHANGED <<DVars, loc, exits>>

\* the dry-run branch: the response says what would be executed
DeployDry(r) ==
  /\ pc[r] = "d_dry"
  /\ dry_run_info' = [dry_run_info EXCEPT ![r] = DryRunInfo(body, cfg)]
  /\ Respond(r, "dry_run", 200)
  /\ UNCHANGED <<DVars, loc, spawned, exits>>

\* the command /deploy is at: a pre-command, or the main command
DeployCmd(r) == IF loc[r].idx <= cfg.nPre THEN <<"dpre", loc[r].idx>> ELSE <<"dmain", 0>>

\* execute_command without a queue: subprocess.run starts the child, or
\* raises and the handler answers 500
DeployRun(r) ==
  /\ pc[r] = "d_run"
  /\ \E ok \in BOOLEAN :
       /\ ok => cfg.cwd_ok
       /\ IF ok
            THEN /\ pc' = [pc EXCEPT ![r] = "d_wait"]
                 /\ UNCHANGED <<out, exits>>
            ELSE /\ Respond(r, "exception", 500)
                 /\ exits' = [exits EXCEPT ![r] = Append(@, DeployCmd(r) \o <<None>>)]
  /\ spawned' = [spawned EXCEPT ![r] = Append(@, DeployCmd(r))]
  /\ UNCHANGED <<DVars, dry_run_info, loc>>

\* subprocess.run returns with the child's exit code: a pre-command that
\* exited 0 is followed by the next command, any other result is the response
DeployResult(r) ==
  /\ pc[r] = "d_wait"
  /\ \E code \in ExitCodes :
       /\ exits' = [exits EXCEPT ![r] = Append(@, DeployCmd(r) \o <<code>>)]
       /\ IF loc[r].idx <= cfg.nPre
            THEN IF code = 0
                   THEN /\ pc' = [pc EXCEPT ![r] = "d_run"]
                        /\ out' = out
                   ELSE Respond(r, "pre_failed", 500)
            ELSE IF code = 0
                   THEN Respond(r, "initiated", 200)
                   ELSE Respond(r, "failed", 500)
  /\ loc' = [loc EXCEPT ![r].idx = @ + 1]
  /\ UNCHANGED <<DVars, dry_run_info, spawned>>

\* subprocess.run reaches its timeout of 600 s: the child is killed and
\* TimeoutExpired becomes the response
DeployTimeout(r) ==
  /\ pc[r] = "d_wait"
  /\ exits' = [exits EXCEPT ![r] = Append(@, DeployCmd(r) \o <<None>>)]
  /\ Respond(r, "timeout", 500)
  /\ UNCHANGED <<DVars, dry_run_info, loc, spawned>>

\* ------------------------------------- normalize_docker_compose_command
DockerComposeV1 == <<"d", "o", "c", "k", "e", "r", "-", "c", "o", "m", "p", "o", "s", "e">>

DockerComposeV2 == <<"d", "o", "c", "k", "e", "r", " ", "c", "o", "m", "p", "o", "s", "e">>

\* str.strip(): the whitespace at both ends removed (the strings of the
\* model have no whitespace but the space)
RECURSIVE LStrip(_)
LStrip(s) == IF s # <<>> /\ Head(s) = " " THEN LStrip(Tail(s)) ELSE s

RECURSIVE RStrip(_)
RStrip(s) ==
  IF s # <<>> /\ Last(s) = " " THEN RStrip(SubSeq(s, 1, Len(s) - 1)) ELSE s

Strip(s) == RStrip(LStrip(s))

\* a replace that rewrites every occurrence
ReplaceEvery(s, old, new) == Replace(s, old, new)

\* str.replace(old, new, 1): the first occurrence of old becomes new
RECURSIVE ReplaceFirst(_, _, _)
ReplaceFirst(s, old, new) ==
  IF s = <<>> THEN <<>>
  ELSE IF StartsWith(s, old)
         THEN new \o SubSeq(s, Len(old) + 1, Len(s))
         ELSE <<Head(s)>> \o ReplaceFirst(Tail(s), old, new)

\* get_docker_compose_command: V2 when its probe succeeds, else V1 when its
\* probe succeeds, else None (the empty string here: `not compose_cmd`
\* treats the two alike)
get_docker_compose_command(v2, v1) ==
  IF v2 THEN DockerComposeV2 ELSE IF v1 THEN DockerComposeV1 ELSE <<>>

normalize_docker_compose_command(command, v2, v1) ==
  LET compose_cmd == get_docker_compose_command(v2, v1) IN
  IF compose_cmd = <<>> THEN command
  ELSE IF StartsWith(Strip(command), DockerComposeV1)
         THEN ReplaceFirst(command, DockerComposeV1, compose_cmd)
  ELSE IF StartsWith(Strip(command), DockerComposeV2)
         THEN ReplaceFirst(command, DockerComposeV2, compose_cmd)
  ELSE command

\* the call returns the string result
Return(result) ==
  fn_call' = [fn_call EXCEPT !.returned = TRUE, !.result = result]

PureVars ==
  <<deployment_state, cfg, body, dry_run_info, files, kind, pc, out, todo, loc,
    worker, spawned, exits, effects, hist, ended>>

Normalize ==
  /\ fn_call.fn = "normalize"
  /\ ~fn_call.returned
  /\ Return(normalize_docker_compose_command(fn_call.arg, fn_call.v2, fn_call.v1))
  /\ UNCHANGED PureVars

\* ---------------------------------------------------- extract_base_domain
\* host_header.split(':')[0]: the characters before the first colon
RECURSIVE SplitPort(_)
SplitPort(host_header) ==
  IF host_header = <<>> \/ Head(host_header) = ":" THEN <<>>
  ELSE <<Head(host_header)>> \o SplitPort(Tail(host_header))

\* [^.]+ matched greedily from position k: the position after the run
RECURSIVE NonDotRun(_, _)
NonDotRun(host, k) ==
  IF k > Len(host) \/ host[k] = "." THEN k ELSE NonDotRun(host, k + 1)

\* the pattern (-[^.]+\..+)$ matches at position i: a hyphen, one or more
\* characters that are not dots, a dot, one or more characters, the end
MatchAt(host, i) ==
  /\ host[i] = "-"
  /\ LET j == NonDotRun(host, i + 1)
     IN /\ j > i + 1
        /\ j <= Len(host) /\ host[j] = "."
        /\ j + 1 <= Len(host)

\* the search taken from the right: the last position the pattern matches at
RECURSIVE SearchBack(_, _)
SearchBack(host, i) ==
  IF i < 1 THEN 0
  ELSE IF MatchAt(host, i) THEN i
  ELSE SearchBack(host, i - 1)

re_search_last(host, i) == SearchBack(host, Len(host))

\* re.search: the leftmost position at or after i the pattern matches at,
\* 0 for no match
RECURSIVE re_search(_, _)
re_search(host, i) ==
  IF i > Len(host) THEN 0
  ELSE IF MatchAt(host, i) THEN i
  ELSE re_search(host, i + 1)

\* extract_base_domain: None for an empty header or no match, else group 1,
\* which runs from the match position to the end of the host
ExtractBaseDomain ==
  /\ fn_call.fn = "extract_base_domain"
  /\ ~fn_call.returned
  /\ LET host == SplitPort(fn_call.arg)
         m == re_search(host, 1)
     IN IF fn_call.arg = <<>> \/ m = 0
          THEN fn_call' = [fn_call EXCEPT !.returned = TRUE, !.none = TRUE]
          ELSE Return(SubSeq(host, m, Len(host)))
  /\ UNCHANGED PureVars

\* ------------------------------------------------- substitute_service_urls
HostIpToken == <<"$", "{", "H", "O", "S", "T", "_", "I", "P", "}">>

BaseDomainToken ==
  <<"$", "{", "B", "A", "S", "E", "_", "D", "O", "M", "A", "I", "N", "}">>

\* service.get('url', '')
UrlTemplate(service) ==
  IF "url" \in DOMAIN service THEN service["url"] ELSE <<>>

\* one turn of the loop: the two replacements one after the other, the second
\* in what the first returned, each only for a value that is not empty or None
SubstitutedUrl(url_template, host_ip, base_domain) ==
  LET url1 == IF host_ip # <<>>
                THEN Replace(url_template, HostIpToken, host_ip)
                ELSE url_template
  IN IF base_domain # <<>>
       THEN Replace(url1, BaseDomainToken, base_domain)
       ELSE url1

\* new_service = service.copy(); new_service['url'] = url
NewService(service, url) ==
  [k \in DOMAIN service \cup {"url"} |-> IF k = "url" THEN url ELSE service[k]]

\* substitute_service_urls: [] for no services, else one new service per
\* service, in order
substitute_service_urls(services, host_ip, base_domain) ==
  [i \in 1..Len(services) |->
     NewService(services[i],
                SubstitutedUrl(UrlTemplate(services[i]), host_ip, base_domain))]

Substitute ==
  /\ fn_call.fn = "substitute_service_urls"
  /\ ~fn_call.returned
  /\ Return(substitute_service_urls(fn_call.arg[1], fn_call.arg[2],
                                    fn_call.arg[3]))
  /\ UNCHANGED PureVars

\* ------------------------------------------------------ GET /deploy/status
\* get_status(): the fields read under the lock; a time is given as its ISO
\* text and None stays None
get_status(ds) ==
  [is_running |-> ds.is_running,
   status |-> ds.status,
   started_at |-> IF ds.started_at # 0 THEN ds.started_at ELSE 0,
   finished_at |-> IF ds.finished_at # 0 THEN ds.finished_at ELSE 0,
   log_count |-> Len(ds.logs)]

\* the handler answers with the snapshot; it keeps no state of its own
DeployStatus ==
  /\ fn_call' = [NoCall EXCEPT !.fn = "get_status", !.returned = TRUE,
                               !.result = get_status(deployment_state)]
  /\ UNCHANGED PureVars

\* ------------------------------------------------------------ specification
Follower(r) ==
  \/ FollowerReplay(r) \/ FollowerLoop(r) \/ FollowerPoll(r) \/ FollowerFinal(r)

Logs(r) ==
  \/ LogsReplay(r) \/ LogsLoop(r) \/ LogsPoll(r) \/ LogsFinal(r) \/ LogsEnd(r)

Leader(r) ==
  \/ Start(r) \/ LoadConfig(r) \/ WriteEnv(r) \/ Emit(r) \/ Finish(r)
  \/ PreLoop(r)
  \/ MainStart(r) \/ MonDrain(r) \/ MonCheck(r) \/ MonJoin(r) \/ FinalDrain(r)
  \/ StatusTimeout(r) \/ StatusSuccess(r) \/ StatusUnknown(r) \/ StatusFailed(r)
  \/ PostLoop(r) \/ Services(r) \/ SaveState(r)

PreCommand(r) == PreSpawn(r) \/ PreLine(r) \/ PreExit(r)

PostCommand(r) == PostSpawn(r) \/ PostLine(r) \/ PostExit(r)

Worker(r) ==
  \/ WPopen(r) \/ WLine(r) \/ WWait(r) \/ WReturncode(r) \/ WStdout(r) \/ WDone(r)
  \/ XReturncode(r) \/ XStdout(r) \/ XDone(r) \/ XPut(r)

\* One POST /deploy/stream request under a configuration with pre-commands
\* and no post-commands.
Next ==
  \/ Arrive(1, {"stream"}, {"ok", "empty"}) \/ CheckRunning(1) \/ Leader(1) \/ Worker(1)
  \/ PreCommand(1)

Spec == Init /\ [][Next]_vars

\* One POST /deploy/stream request under a configuration with post-commands
\* and no pre-commands.
InitPost ==
  /\ deployment_state = InitialState
  /\ cfg \in ConfigsPost
  /\ InitRest

NextPost ==
  \/ Arrive(1, {"stream"}, {"ok", "empty"}) \/ CheckRunning(1) \/ Leader(1) \/ Worker(1)
  \/ PostCommand(1)

SpecPost == InitPost /\ [][NextPost]_vars

\* Concurrent requests, POST /deploy/stream and GET /deploy/logs, with no
\* deployment type configured: each run is start(), one error record and
\* finish('failed').
InitConc ==
  /\ deployment_state = InitialState
  /\ cfg \in ConfigsConc
  /\ InitRest

NextConc ==
  \E r \in Reqs :
    \/ Arrive(r, {"stream", "logs"}, {"ok", "empty"}) \/ CheckRunning(r) \/ Follower(r) \/ Logs(r)
    \/ Start(r) \/ LoadConfig(r) \/ Emit(r) \/ Finish(r)

SpecConc == InitConc /\ [][NextConc]_vars

\* deployment_state.start() from any state of the tracker: one request is
\* about to call it, and the tracker holds any status and any logs of at
\* most MaxLog records.
LogSamples == {Rec("start", "", 0), Rec("output", "main", 1), Rec("complete", "", 0)}

LogsUpTo(n) == UNION {[1..k -> LogSamples] : k \in 0..n}

InitStart ==
  /\ \E st \in Statuses, logs \in LogsUpTo(MaxLog) :
       deployment_state =
         [is_running |-> (st = "running"),
          started_at |-> IF st = "idle" THEN 0 ELSE 1,
          finished_at |-> IF st \in Terminal THEN 1 ELSE 0,
          status |-> st, logs |-> logs]
  /\ cfg = Unconfigured
  /\ InitRest

NextStart == \E r \in Reqs : Arrive(r, {"stream"}, {"ok", "empty"}) \/ CheckRunning(r) \/ Start(r)

SpecStart == InitStart /\ [][NextStart]_vars

Uninstall(r) ==
  \/ UGuard(r) \/ ULoop(r) \/ USpawn(r) \/ ULine(r) \/ UExit(r)
  \/ UCleanup(r) \/ UClear(r)

\* One POST /uninstall request, from any state of the two files and under
\* any configuration of uninstall commands.

InitUninstall ==
  /\ deployment_state = InitialState
  /\ cfg \in ConfigsUninstall
  /\ state_file \in {"absent", "deployed"}
  /\ env_file \in {"absent", "written"}
  /\ body = DefaultBody
  /\ fn_call = NoCall
  /\ InitHandlers

NextUninstall == Arrive(1, {"uninstall"}, {"ok"}) \/ Uninstall(1)

SpecUninstall == InitUninstall /\ [][NextUninstall]_vars

Deploy(r) ==
  \/ DeployConfig(r) \/ DeployDry(r) \/ DeployRun(r) \/ DeployResult(r)
  \/ DeployTimeout(r)

\* Two POST /deploy requests, with and without dryRun and with every body,
\* in any state of the tracker and of the two files.
DeployReqs == {1, 2}

ConfigsDeploy ==
  {Unconfigured, Config(TRUE, TRUE, 0, 0, 0), Config(TRUE, TRUE, MaxPre, MaxPost, 0),
   Config(TRUE, FALSE, MaxPre, 0, 0)}

InitDeploy ==
  /\ \E st \in Statuses :
       /\ LET logs == IF st = "idle" THEN <<>> ELSE <<Rec("start", "", 0)>> IN
          deployment_state =
            [is_running |-> (st = "running"),
             started_at |-> IF st = "idle" THEN 0 ELSE 1,
             finished_at |-> IF st \in Terminal THEN 1 ELSE 0,
             status |-> st, logs |-> logs]
  /\ cfg \in ConfigsDeploy
  /\ state_file \in {"absent", "deployed"}
  /\ env_file \in {"absent", "written"}
  /\ body = DefaultBody
  /\ fn_call = NoCall
  /\ InitHandlers

NextDeploy == \E r \in DeployReqs : Arrive(r, {"deploy", "dry_run"}, Bodies) \/ Deploy(r)

SpecDeploy == InitDeploy /\ [][NextDeploy]_vars

\* One POST /deploy request with dryRun, over the strings of its body: the
\* api key, at most one inputData value, the version and the text of the
\* configured commands.
Chars == {"a", "*"}

Strs == UNION {[1..n -> Chars] : n \in 0..MaxStr}

InitMask ==
  /\ deployment_state = InitialState
  /\ cfg = Config(TRUE, TRUE, 1, 1, 0)
  /\ state_file = "absent"
  /\ env_file = "absent"
  /\ \E k \in Strs, v \in Strs, ver \in Strs, cmd \in Strs \ {<<>>}, n \in 0..1 :
       /\ k # <<>> \/ n = 1
       /\ n = 0 => v = <<>>
       /\ body = [api_key |-> k, input_data |-> [i \in 1..n |-> v], version |-> ver,
                  working_dir |-> <<"a">>, command |-> cmd]
  /\ fn_call = NoCall
  /\ InitHandlers

NextMask == Arrive(1, {"dry_run"}, {"ok"}) \/ DeployConfig(1) \/ DeployDry(1)

SpecMask == InitMask /\ [][NextMask]_vars

\* Concurrent POST /deploy/stream requests with every body, with no
\* deployment type configured.
NextBody ==
  \E r \in Reqs :
    \/ Arrive(r, {"stream"}, Bodies) \/ CheckRunning(r) \/ Follower(r)
    \/ Start(r) \/ LoadConfig(r) \/ Emit(r) \/ Finish(r)

SpecBody == InitConc /\ [][NextBody]_vars

\* One POST /deploy/stream request and one POST /deploy request, under a
\* configuration with a main command only.
InitMix ==
  /\ deployment_state = InitialState
  /\ cfg = Config(TRUE, TRUE, 0, 0, 0)
  /\ InitRest

NextMix ==
  \/ Arrive(1, {"stream"}, {"ok"}) \/ CheckRunning(1) \/ Leader(1) \/ Worker(1)
  \/ Arrive(2, {"deploy", "dry_run"}, {"ok"}) \/ Deploy(2)

SpecMix == InitMix /\ [][NextMix]_vars

\* The one request of Spec under fair scheduling: the handler's generator
\* and the worker thread each take their next step when they can, and the
\* child of the main command exits or runs into the timeouts of its wait.
\* Nothing makes the child of a pre-command write or exit: PreLine and
\* PreExit are the child's steps, and the handler waits for them in readline
\* and process.wait() without a timeout.
Fairness ==
  /\ WF_vars(Arrive(1, {"stream"}, {"ok", "empty"}) \/ CheckRunning(1) \/ Leader(1)
               \/ PreSpawn(1))
  /\ WF_vars(Worker(1))

SpecLive == Init /\ [][Next]_vars /\ Fairness

\* One POST /deploy/stream request under a configuration with a main command
\* only, whose child writes more than one line.
InitMain ==
  /\ deployment_state = InitialState
  /\ cfg \in ConfigsMain
  /\ InitRest

NextMain ==
  \/ Arrive(1, {"stream"}, {"ok"}) \/ CheckRunning(1) \/ Leader(1) \/ Worker(1)

SpecMain == InitMain /\ [][NextMain]_vars

\* The same with a child that writes as many lines as the window of the
\* failure report holds, and no cluster to poll.
InitTail ==
  /\ deployment_state = InitialState
  /\ cfg = [MainConfig(TailWindow) EXCEPT !.cluster = FALSE]
  /\ InitRest

SpecTail == InitTail /\ [][NextMain]_vars

\* One POST /deploy/stream request under a configuration with a main command
\* only, with a cluster whose larger pod listing is longer than the cap of a report.
InitPods ==
  /\ deployment_state = InitialState
  /\ cfg = [MainConfig(MaxOut) EXCEPT !.pods = PodCap + 1]
  /\ InitRest

SpecPods == InitPods /\ [][NextMain]_vars

\* One call of normalize_docker_compose_command, over the command strings
\* put together from at most MaxPieces pieces and over the outcomes of the
\* two probes.
Pieces == {<<" ">>, DockerComposeV1, DockerComposeV2, <<"d", "o", "c", "k", "e", "r">>, <<"u", "p">>}

RECURSIVE Concat(_)
Concat(ps) == IF ps = <<>> THEN <<>> ELSE Head(ps) \o Concat(Tail(ps))

Commands == {Concat(ps) : ps \in UNION {[1..n -> Pieces] : n \in 0..MaxPieces}}

InitNormalize ==
  /\ deployment_state = InitialState
  /\ cfg = Unconfigured
  /\ state_file = "absent"
  /\ env_file = "absent"
  /\ body = DefaultBody
  /\ \E cmd \in Commands, v2 \in BOOLEAN, v1 \in BOOLEAN :
       fn_call = [NoCall EXCEPT !.fn = "normalize", !.arg = cmd, !.v2 = v2, !.v1 = v1]
  /\ InitHandlers

NextNormalize == Normalize

SpecNormalize == InitNormalize /\ [][NextNormalize]_vars

\* host headers: every string of at most MaxHost characters over a letter,
\* the hyphen, the dot and the colon, and one full host name with a port
HostChars == {"a", "-", ".", ":"}

ExampleHost ==
  <<"s", "t", "u", "d", "i", "o", "-", "a", "b", "c", "1", "2", "3", ".",
    "e", "x", "a", "m", "p", "l", "e", ".", "c", "o", "m", ":", "4", "4", "3">>

HostHeaders == UNION {[1..n -> HostChars] : n \in 0..MaxHost} \cup {ExampleHost}

InitBaseDomain ==
  /\ deployment_state = InitialState
  /\ cfg = Unconfigured
  /\ state_file = "absent"
  /\ env_file = "absent"
  /\ body = DefaultBody
  /\ \E h \in HostHeaders :
       fn_call = [NoCall EXCEPT !.fn = "extract_base_domain", !.arg = h]
  /\ InitHandlers

NextBaseDomain == ExtractBaseDomain

SpecBaseDomain == InitBaseDomain /\ [][NextBaseDomain]_vars

\* URL templates: at most MaxUrl pieces, each a token or a plain character
UrlPieces == {HostIpToken, BaseDomainToken, <<"a">>}

UrlTemplates == {Concat(ps) : ps \in UNION {[1..n -> UrlPieces] : n \in 0..MaxUrl}}

\* configured services: with a url template, and one without a url
ServiceDefs ==
  {[name |-> "svc", url |-> t] : t \in UrlTemplates} \cup {[name |-> "svc"]}

ServiceLists == UNION {[1..n -> ServiceDefs] : n \in 0..MaxList}

\* get_host_ip() gives None or the non-empty text the echo service printed
HostIps == {<<>>, <<"1">>, BaseDomainToken}

\* extract_base_domain() gives None or a suffix that starts with a hyphen
BaseDomains == {<<>>, <<"-", "x">>}

InitSubstitute ==
  /\ deployment_state = InitialState
  /\ cfg = Unconfigured
  /\ state_file = "absent"
  /\ env_file = "absent"
  /\ body = DefaultBody
  /\ \E services \in ServiceLists, host_ip \in HostIps, base_domain \in BaseDomains :
       fn_call = [NoCall EXCEPT !.fn = "substitute_service_urls",
                                !.arg = <<services, host_ip, base_domain>>]
  /\ InitHandlers

NextSubstitute == Substitute

SpecSubstitute == InitSubstitute /\ [][NextSubstitute]_vars

\* One POST /deploy/stream request, with or without a body, under a
\* configuration with a main command only and no cluster, and GET
\* /deploy/status requests at any time.
InitStatus ==
  /\ deployment_state = InitialState
  /\ cfg = [MainConfig(MaxOut) EXCEPT !.cluster = FALSE]
  /\ InitRest

NextStatus ==
  \/ Arrive(1, {"stream"}, {"ok", "null"}) \/ CheckRunning(1) \/ Leader(1) \/ Worker(1)
  \/ DeployStatus

SpecStatus == InitStatus /\ [][NextStatus]_vars

\* ================================================================ properties
\* a request that has called start() and not yet finish()
Leading(r) == "start" \in effects[r] /\ "finish" \notin effects[r]

\* a POST /deploy/stream request that took the follower path
IsFollower(r) ==
  /\ kind[r] = "stream"
  /\ out[r] # <<>>
  /\ out[r][1] = Rec("info", "already", 0)

FollowerPcs == {"f_replay", "f_loop", "f_poll", "f_final"}

\* the log records a follower's stream carries: all frames but the notice
\* that opens the follower path of /deploy/stream and the stream_end frame
\* that closes /deploy/logs
DataFrames(r) ==
  IF kind[r] = "stream" THEN Tail(out[r]) ELSE SubSeq(out[r], 1, Len(out[r]) - 1)

\* C1 as stated: at any time at most one request is between its start() and
\* its finish().  The check of is_running (line 577) and start() (line 600)
\* are two steps, so two requests that both read is_running = False both
\* become leader; SpecConc violates this.
C1_SingleLeader == Cardinality({r \in Reqs : Leading(r)}) <= 1

\* C2: no step of a request on the follower path of /deploy/stream changes
\* the tracker, the files or any worker, and such a request has made no
\* start(), add_log(), finish() or status poll and no Popen call.
C2_FollowerReadsOnly ==
  [][\A r \in Reqs :
       (pc[r] \in FollowerPcs /\ pc'[r] # pc[r]) =>
          /\ deployment_state' = deployment_state
          /\ effects[r] = {} /\ effects'[r] = {}
          /\ spawned[r] = <<>> /\ spawned'[r] = <<>>
          /\ UNCHANGED <<files, worker>>]_vars

\* a follower of /deploy/stream has replayed records and ended
C2_Witness ==
  \E r \in Reqs :
    /\ IsFollower(r) /\ pc[r] = "done"
    /\ Len(out[r]) > 1
    /\ effects[r] = {} /\ spawned[r] = <<>>

\* C3 as stated: a follower that attached while a run was running has, when
\* its stream ends, emitted exactly the records appended for that run.  A
\* start() between the follower's last poll and its final read clears the
\* records it has not read yet; SpecConc violates this.
C3_FollowerExact ==
  \A r \in Reqs :
    (pc[r] = "done" /\ loc[r].att_running) => DataFrames(r) = hist[loc[r].att]

\* C4: the step that calls start() leaves status = running, is_running =
\* true, finished_at = None and an empty logs list, whatever the state before.
C4_StartResets ==
  [][\A r \in Reqs :
       (pc[r] = "start" /\ pc'[r] = "config") =>
          /\ deployment_state'.status = "running"
          /\ deployment_state'.is_running
          /\ deployment_state'.finished_at = 0
          /\ deployment_state'.logs = <<>>]_vars

\* start() has been called a second time, on a tracker that held records
C4_Witness ==
  \E r \in Reqs :
    /\ pc[r] = "config"
    /\ deployment_state.started_at = 2
    /\ deployment_state.logs = <<>>
    /\ deployment_state.status = "running"

\* the Popen calls of the first i pre-commands, in order
PreCalls(i) == [k \in 1..i |-> <<"pre", k>>]

\* C5: once a pre-command i of a leader run has exited with a non-zero code,
\* the run's Popen calls are those of pre-commands 1..i and nothing else (no
\* later pre-command, no main command, no post-command), the leader is at
\* finish('failed') or past it, the last record it appended is the error
\* record with that code, and after finish() the status is failed.
C5_PreCommandFailure ==
  \A r \in Reqs : \A k \in 1..Len(exits[r]) :
    (exits[r][k][1] = "pre" /\ exits[r][k][3] \notin {0, None}) =>
       /\ spawned[r] = PreCalls(exits[r][k][2])
       /\ pc[r] \in {"finish", "done"}
       /\ loc[r].final = "failed"
       /\ (todo[r] = <<>>) =>
            /\ Last(out[r]) = Rec("error", "pre_exit", exits[r][k][3])
            /\ Last(deployment_state.logs) = Rec("error", "pre_exit", exits[r][k][3])
       /\ (pc[r] = "done") =>
            /\ deployment_state.status = "failed"
            /\ ~deployment_state.is_running

\* the first of several pre-commands exited 2 and the run has ended
C5_Witness ==
  \E r \in Reqs :
    /\ pc[r] = "done"
    /\ cfg.nPre >= 2
    /\ exits[r] = <<<<"pre", 1, 2>>>>
    /\ spawned[r] = <<<<"pre", 1>>>>

IsPost(x) == x[1] = "post"

\* C6 as stated: a run whose monitoring loop was left through the timeout
\* branch, the worker not yet seen done, runs no post-command, writes no
\* state file, and is finalized as timeout.  The worker can set the exit
\* code between the timeout and the final report; SpecPost violates this.
C6_TimeoutFinal ==
  \A r \in Reqs :
    (loc[r].timed_out /\ loc[r].polls_without_change = 0) =>
       /\ SelectSeq(spawned[r], IsPost) = <<>>
       /\ "save_state" \notin effects[r]
       /\ (pc[r] \in {"finish", "done"}) => loc[r].final = "timeout"

\* C6 amended: of a run whose monitoring loop was left through the timeout
\* branch, the final report finds the exit code unset or set.  Unset: the
\* run is finalized as timeout, with no post-command and no state file.
\* Set: the run is finalized by the exit code, success for 0 and failed
\* otherwise, and never as timeout.
C6_TimeoutUnlessExited ==
  \A r \in Reqs :
    (loc[r].timed_out /\ pc[r] \in {"finish", "done"}) =>
       IF loc[r].rc_seen = None
         THEN /\ loc[r].final = "timeout"
              /\ SelectSeq(spawned[r], IsPost) = <<>>
              /\ "save_state" \notin effects[r]
              /\ (pc[r] = "done") => deployment_state.status = "timeout"
         ELSE /\ loc[r].final = (IF loc[r].rc_seen = 0 THEN "success" ELSE "failed")
              /\ (pc[r] = "done") => deployment_state.status = loc[r].final

\* a run ended as timeout with the worker never seen done
C6_Witness ==
  \E r \in Reqs :
    /\ pc[r] = "done"
    /\ loc[r].timed_out /\ loc[r].polls_without_change = 0
    /\ loc[r].rc_seen = None
    /\ deployment_state.status = "timeout"

\* the Popen calls of all configured post-commands, in order
PostCalls == [k \in 1..cfg.nPost |-> <<"post", k>>]

PostFailed(x) == x[1] = "post" /\ x[3] # 0

\* the warning record of a post-command that ended as x
PostWarning(x) ==
  IF x[3] = None THEN Rec("warning", "post_error", 0)
  ELSE Rec("warning", "post_exit", x[3])

IsPostWarning(rec) ==
  TypeOf(rec) = "warning" /\ rec[2] \in {"post_error", "post_exit"}

\* the warning records the failed post-commands of r call for, in order
PostWarnings(r) ==
  LET failed == SelectSeq(exits[r], PostFailed)
  IN [k \in 1..Len(failed) |-> PostWarning(failed[k])]

\* C7: a leader run that read exit code 0 of its main command at the final
\* report and has come to finish() has made the Popen call of every
\* configured post-command, in order, has appended one warning record for
\* each post-command that exited non-zero or could not be spawned, in
\* order, and is finalized as success.
C7_PostCommandsBestEffort ==
  \A r \in Reqs :
    (loc[r].rc_seen = 0 /\ pc[r] \in {"finish", "done"}) =>
       /\ SelectSeq(spawned[r], IsPost) = PostCalls
       /\ SelectSeq(out[r], IsPostWarning) = PostWarnings(r)
       /\ loc[r].final = "success"
       /\ (pc[r] = "done") => deployment_state.status = "success"

\* a run ended as success whose first post-command exited 2 and whose
\* second could not be spawned
C7_Witness ==
  \E r \in Reqs :
    /\ pc[r] = "done"
    /\ deployment_state.status = "success"
    /\ cfg.nPost >= 2
    /\ Upto(SelectSeq(exits[r], IsPost), 2) = <<<<"post", 1, 2>>, <<"post", 2, None>>>>

IsComplete(rec) == TypeOf(rec) = "complete"

\* a leader about to call finish(), or past it
AtFinish(r) ==
  "start" \in effects[r] /\ pc[r] \in {"finish", "done"} /\ todo[r] = <<>>

\* C8 as stated: the last record a leader appended before finish(), and the
\* last data frame of its stream, is of kind complete.  The failed paths end
\* with an error record; Spec violates this.
C8_CompleteLast ==
  \A r \in Reqs :
    AtFinish(r) =>
       /\ IsComplete(Last(out[r]))
       /\ IsComplete(Last(deployment_state.logs))

\* C8 amended: a leader run finalized as success, timeout or unknown appends
\* one record of kind complete, as the last record of the logs and the last
\* frame of its stream before finish(); a run finalized as failed appends no
\* record of kind complete, and its last record is of kind error.
C8_CompleteUnlessFailed ==
  \A r \in Reqs :
    AtFinish(r) =>
       /\ deployment_state.logs = out[r]
       /\ IF loc[r].final = "failed"
            THEN /\ TypeOf(Last(out[r])) = "error"
                 /\ SelectSeq(out[r], IsComplete) = <<>>
            ELSE /\ loc[r].final \in {"success", "timeout", "unknown"}
                 /\ IsComplete(Last(out[r]))
                 /\ Len(SelectSeq(out[r], IsComplete)) = 1

\* a run ended as success with the complete record last
C8_Witness ==
  \E r \in Reqs :
    /\ pc[r] = "done"
    /\ "start" \in effects[r]
    /\ deployment_state.status = "success"
    /\ IsComplete(Last(deployment_state.logs))

\* C9 as stated, read in the code's favour: the stream of a follower of
\* /deploy/stream ends with a terminal marker, a stream_end frame or the
\* run's complete record.  The follower path returns after its final read
\* of the logs, and a failed run has no complete record; SpecConc violates
\* this.
C9_FollowerMarker ==
  \A r \in Reqs :
    (IsFollower(r) /\ pc[r] = "done") =>
       TypeOf(Last(out[r])) \in {"stream_end", "complete"}

\* C10 as stated: the stream_end frame of a /deploy/logs stream that
\* attached to a running deployment carries the terminal status with which
\* that run was finalized.  The status is read after the loop, when a later
\* start() may have set it to running; SpecConc violates this.
C10_StreamEndStatus ==
  \A r \in Reqs :
    (kind[r] = "logs" /\ pc[r] = "done" /\ loc[r].att_running) =>
       /\ Last(out[r])[2] \in Terminal
       /\ Last(out[r])[2] = ended[loc[r].att]

\* C11: a step that creates or overwrites the state file is the step of a
\* leader at save_persistent_state(), which has read exit code 0 of its main
\* command and has not called finish() yet; a request that has written the
\* file is such a leader, finalized as success and as nothing else.
C11_StateFileOnlyOnSuccess ==
  /\ [](\A r \in Reqs :
          "save_state" \in effects[r] =>
             /\ kind[r] = "stream" /\ "start" \in effects[r]
             /\ loc[r].rc_seen = 0
             /\ loc[r].final = "success")
  /\ [][\A r \in Reqs :
          (\/ state_file' \notin {state_file, "absent"}
           \/ "save_state" \in effects'[r] \ effects[r]) =>
             \E w \in Reqs :
               /\ kind[w] = "stream" /\ "start" \in effects[w]
               /\ pc[w] = "save" /\ pc'[w] = "finish"
               /\ loc[w].rc_seen = 0
               /\ "finish" \notin effects'[w]]_vars

\* the state file is written and the leader has not called finish() yet
C11_Witness ==
  \E r \in Reqs :
    /\ state_file = "deployed"
    /\ "save_state" \in effects[r]
    /\ pc[r] = "finish"
    /\ deployment_state.status = "running"

\* a POST /uninstall request that the first guard refused
Refused(r) == kind[r] = "uninstall" /\ out[r] = <<Rec("error", "nothing", 0)>>

\* a POST /uninstall request that passed the three guards
Uninstalling(r) ==
  /\ kind[r] = "uninstall"
  /\ out[r] # <<>>
  /\ out[r][1] = Rec("start", "uninstall", 0)

\* the Popen calls of n uninstall commands, each once and in order
UnCalls(n) == [k \in 1..n |-> <<"un", k>>]

\* C12: a POST /uninstall that finds the state file without deployed = true
\* ends in the step of that guard with one error frame as its whole stream,
\* and that step spawns nothing, removes no .env file and leaves the state
\* file as it is; the request has then made no Popen call and no cleanup.
C12_NothingToUninstall ==
  /\ [][\A r \in Reqs :
          (pc[r] = "u_guard" /\ pc'[r] # "u_guard" /\ state_file # "deployed") =>
             /\ pc'[r] = "done"
             /\ out'[r] = <<Rec("error", "nothing", 0)>>
             /\ spawned'[r] = <<>>
             /\ effects'[r] = {}
             /\ UNCHANGED <<files, deployment_state>>]_vars
  /\ [](\A r \in Reqs :
          Refused(r) => pc[r] = "done" /\ spawned[r] = <<>> /\ effects[r] = {})

C12_Witness ==
  \E r \in Reqs : Refused(r) /\ pc[r] = "done" /\ env_file = "written"

\* C13: a POST /uninstall that passed its guards makes the Popen calls of
\* the uninstall commands once each and in order, whatever their exit codes
\* and spawn errors; when it has ended it has made all of them and has called
\* clear_persistent_state, and the state file is gone unless its removal
\* itself raised.
C13_AllCommandsThenClear ==
  \A r \in Reqs :
    Uninstalling(r) =>
      /\ spawned[r] = UnCalls(Len(spawned[r]))
      /\ Len(spawned[r]) <= cfg.nUn
      /\ "clear_state" \in effects[r] => Len(spawned[r]) = cfg.nUn
      /\ pc[r] = "done" =>
            /\ spawned[r] = UnCalls(cfg.nUn)
            /\ Len(exits[r]) = cfg.nUn
            /\ "clear_state" \in effects[r]
            /\ "clear_failed" \notin effects[r] => state_file = "absent"

C13_Witness ==
  \E r \in Reqs :
    /\ Uninstalling(r) /\ pc[r] = "done"
    /\ Len(exits[r]) = MaxUn
    /\ exits[r][1][3] \in {None, 2}
    /\ state_file = "absent"

\* every uninstall command of r exited with code 0 and none failed to spawn
AllExitedZero(r) == \A k \in 1..Len(exits[r]) : exits[r][k][3] = 0

\* C14 as stated: the complete frame that ends an uninstall carries success
\* = true exactly when every command exited 0 without a spawn error.  Line
\* 1125 sends success True whatever all_success is; SpecUninstall violates
\* this with one command that exits non-zero.
C14_CompleteCarriesAggregate ==
  \A r \in Reqs :
    (Uninstalling(r) /\ pc[r] = "done") =>
       /\ TypeOf(Last(out[r])) = "complete"
       /\ (Last(out[r])[3] = 1) <=> AllExitedZero(r)

\* a POST /deploy request whose child process is running
Executing(r) == kind[r] = "deploy" /\ pc[r] = "d_wait"

\* C15: no step of a POST /deploy request with dryRun changes the tracker,
\* the state file or the .env file or makes a Popen call, whatever the status
\* of the tracker and whatever the other requests do; such a request has
\* never spawned anything.
C15_DryRunChangesNothing ==
  /\ [][\A r \in Reqs :
          (kind'[r] = "dry_run" /\ pc'[r] # pc[r]) =>
             /\ deployment_state' = deployment_state
             /\ UNCHANGED files
             /\ spawned' = spawned
             /\ effects' = effects]_vars
  /\ [](\A r \in Reqs :
          kind[r] = "dry_run" => spawned[r] = <<>> /\ exits[r] = <<>> /\ effects[r] = {})

C15_Witness ==
  \E r, q \in Reqs :
    /\ kind[r] = "dry_run" /\ pc[r] = "done" /\ dry_run_info[r].dry_run
    /\ deployment_state.status = "running"
    /\ Executing(q)
    /\ state_file = "deployed" /\ env_file = "written"

\* the string s contains the string p
Contains(s, p) ==
  \E i \in 0..(Len(s) - Len(p)) : SubSeq(s, i + 1, i + Len(p)) = p

\* the secret values a body supplies: apiKey and the non-empty inputData values
Secrets(b) ==
  {v \in {b.api_key} \cup {b.input_data[i] : i \in DOMAIN b.input_data} : v # <<>>}

\* the strings of a dry-run response
ResponseFields(info) ==
  {info.version, info.working_directory, info.main_command}
    \cup {info.environment[i] : i \in DOMAIN info.environment}
    \cup {info.pre_commands[i] : i \in DOMAIN info.pre_commands}
    \cup {info.post_commands[i] : i \in DOMAIN info.post_commands}

\* C16 as stated: no field of a dry-run response contains a supplied secret
\* value verbatim.  mask_secrets is applied to the commands only, and it
\* replaces one value after the other: SpecMask violates this with a
\* version or working directory equal to a secret, with a secret that is
\* part of the mask '***' or of '***hidden***', and with a later replacement
\* that rebuilds an earlier secret.
C16_NoSecretInDryRun ==
  \A r \in Reqs :
    dry_run_info[r].dry_run =>
      \A f \in ResponseFields(dry_run_info[r]), v \in Secrets(body) : ~Contains(f, v)

\* a request whose body supplies neither apiKey nor inputData
NoInput(r) == kind[r] \in {"stream", "deploy", "dry_run"} /\ loc[r].data # "ok"

\* C17 as stated: no step of a request that supplies neither apiKey nor
\* inputData changes the tracker or makes a Popen call, and its response is
\* one error.  A body for which get_json() gives no object (JSON null, or
\* no JSON at all) supplies neither, and /deploy/stream answers it from its
\* outer except clause: emit_log adds the error to the logs and
\* finish('failed') sets the status; SpecBody violates this.
C17_NoInputRejected ==
  /\ [][\A r \in Reqs :
          (NoInput(r)' /\ (pc'[r] # pc[r] \/ todo'[r] # todo[r])) =>
             /\ deployment_state' = deployment_state
             /\ spawned'[r] = <<>>]_vars
  /\ [](\A r \in Reqs :
          (NoInput(r) /\ pc[r] = "done") =>
             /\ Len(out[r]) = 1
             /\ TypeOf(out[r][1]) \in {"error", "json"}
             /\ effects[r] = {})

\* C19 as stated: the status changes only to running, or from running to a
\* terminal status, and finish() is applied only while the status is
\* running.  Two requests that both passed the is_running check both call
\* finish(): the second call finds the status already terminal; SpecConc
\* violates this.
C19_StatusTransitions ==
  [][/\ deployment_state'.status # deployment_state.status =>
          \/ deployment_state'.status = "running"
          \/ deployment_state.status = "running" /\ deployment_state'.status \in Terminal
     /\ \A r \in Reqs :
          ("finish" \in effects'[r] \ effects[r]) => deployment_state.status = "running"]_vars

\* C18 as stated: a POST /deploy without dryRun makes no Popen call while the
\* status is running, and no request calls start() while a POST /deploy has
\* a child running.  /deploy never reads the tracker and /deploy/stream
\* knows nothing of /deploy; SpecMix violates both halves.
C18_OneCommandSequence ==
  [][\A r \in Reqs :
       /\ (kind[r] = "deploy" /\ spawned'[r] # spawned[r]) =>
             deployment_state.status # "running"
       /\ ("start" \in effects'[r] \ effects[r]) =>
             \A q \in Reqs : ~Executing(q)]_vars

\* C20 as stated: under fair scheduling a run whose status is running
\* reaches a terminal status, also when the child of a pre-command never
\* exits.  The pre-command loop reads the child's output and calls
\* process.wait() with no timeout, so the request stays there with the
\* status running; SpecLive violates this.
C20_RunTerminates ==
  (deployment_state.status = "running") ~> (deployment_state.status \in Terminal)

\* C21: in a run with one leader, the records on the leader's stream since
\* its start() are the tracker's logs, at every point of the run and after
\* it: emit_log adds each record to the logs before it returns the frame.
C21_LeaderStreamIsLogs ==
  \A r \in Reqs :
    (kind[r] = "stream" /\ "start" \in effects[r]) =>
       out[r] = get_logs(deployment_state)

C21_Witness ==
  \E r \in Reqs :
    /\ Leading(r)
    /\ \E i \in DOMAIN out[r] : out[r][i] = Rec("output", "main", 1)
    /\ \E i \in DOMAIN out[r] : TypeOf(out[r][i]) = "pods"
    /\ out[r] = get_logs(deployment_state)

\* C22: a step that is not a start() leaves the tracker's logs as they are
\* or adds one record at their end; only start() (which advances started_at)
\* removes records.
C22_LogsAppendOnly ==
  [][deployment_state'.started_at = deployment_state.started_at =>
       \/ deployment_state'.logs = deployment_state.logs
       \/ /\ Len(deployment_state'.logs) = Len(deployment_state.logs) + 1
          /\ SubSeq(deployment_state'.logs, 1, Len(deployment_state.logs))
               = deployment_state.logs]_vars

\* two leaders have added their records to the same logs and one has finished
C22_Witness ==
  /\ Len(deployment_state.logs) >= 2
  /\ deployment_state.status \in Terminal
  /\ \E r \in Reqs : "finish" \in effects[r]

\* C23: the monitoring loop is left only timed out, or in a cycle that finds
\* result_holder['done'] set after an earlier cycle had found it set (so the
\* queue drain that opens the cycle ran after the first observation); while
\* the loop runs, polls_without_change counts observations of done only.
C23_MonitorExit ==
  /\ [][\A r \in Reqs :
          (pc[r] = "m_check" /\ pc'[r] = "m_join") =>
             \/ loc'[r].timed_out
             \/ /\ result_holder[r].done
                /\ loc[r].polls_without_change >= 1
                /\ loc'[r].polls_without_change >= 2]_vars
  /\ [](\A r \in Reqs :
          (pc[r] \in {"m_drain", "m_check"} /\ loc[r].polls_without_change >= 1) =>
             result_holder[r].done /\ ~loc[r].timed_out)

C23_Witness ==
  \E r \in Reqs :
    /\ pc[r] = "m_join"
    /\ ~loc[r].timed_out
    /\ result_holder[r].done
    /\ loc[r].polls_without_change = 2
    /\ "poll" \in effects[r]

\* the records of the main command's output lines in a sequence of records
IsMainOutput(rec) == rec[1] = "output" /\ rec[2] = "main"

MainOutput(recs) == SelectSeq(recs, IsMainOutput)

\* the records of the first n lines the child of the main command wrote
MainLines(n) == [i \in 1..n |-> Rec("output", "main", i)]

\* C24: the logs hold the main command's output lines once each and in the
\* order the child wrote them, never more than it wrote; when a leader that
\* did not time out has called finish(), they hold all of them.
C24_MainOutputComplete ==
  \A r \in Reqs :
    "start" \in effects[r] =>
      LET shown == MainOutput(get_logs(deployment_state)) IN
        /\ shown = MainLines(Len(shown))
        /\ Len(shown) <= Len(wloc[r].output_lines)
        /\ ("finish" \in effects[r] /\ ~loc[r].timed_out) =>
              shown = MainLines(Len(wloc[r].output_lines))

C24_Witness ==
  \E r \in Reqs :
    /\ "finish" \in effects[r]
    /\ ~loc[r].timed_out
    /\ Len(wloc[r].output_lines) >= 2
    /\ MainOutput(get_logs(deployment_state)) = MainLines(Len(wloc[r].output_lines))
    /\ \E i \in DOMAIN deployment_state.logs : TypeOf(deployment_state.logs[i]) = "pods"

\* the failure report of a main command that exited with the given code
\* after writing n lines: the exit code, then the last TailWindow lines
FailureReport(code, n) ==
  <<Rec("error", "main_exit", code)>>
    \o [i \in 1..Min(n, TailWindow) |-> Rec("error", "tail", Max(0, n - TailWindow) + i)]

\* C25 as stated: when the main command exits with a non-zero code, the logs
\* of the finished run end with the error record of that code and one error
\* record for each of the last 20 output lines, and the status is failed.
\* split('\n')[-20:] counts the empty element after the last newline, so a
\* child that wrote 20 lines has only its last 19 reported; SpecTail
\* violates this.
C25_FailureReport ==
  \A r \in Reqs :
    (/\ "finish" \in effects[r]
     /\ ~loc[r].timed_out
     /\ \E code \in ExitCodes \ {0} : <<"main", 0, code>> = Last(<<<<"", 0, 0>>>> \o exits[r])) =>
       LET n == Len(wloc[r].output_lines)
           report == FailureReport(wloc[r].code, n)
       IN /\ deployment_state.status = "failed"
          /\ LastN(get_logs(deployment_state), Len(report)) = report

\* a cycle of the monitoring loop that reaches the status poll
PollStep(r) ==
  /\ pc[r] = "m_check"
  /\ ~(result_holder[r].done /\ loc[r].polls_without_change + 1 >= 2)

IsPodRec(rec) == TypeOf(rec) \in {"pods", "pod"}

\* what a poll has to append when it reports: the pods record, then the pod
\* records of the lines of text p, PodCap of them at most
PodReport(p) ==
  <<Rec("pods", "", 0)>>
    \o [i \in 1..Min(PodCap, IF p = 2 THEN cfg.pods ELSE 1) |-> Rec("pod", "", p)]

C27_NoConfiguration ==
  \A r \in Reqs :
    (~cfg.configured /\ "start" \in effects[r]) =>
       /\ spawned[r] = <<>>
       /\ effects[r] \subseteq {"start", "add_log", "finish"}
       /\ state_file = "absent" /\ env_file = "absent"
       /\ wpc[r] = "w_none"
       /\ pc[r] = "done" =>
             /\ get_logs(deployment_state) = <<Rec("error", "no_config", 0)>>
             /\ out[r] = get_logs(deployment_state)
             /\ deployment_state.status = "failed"
             /\ ~deployment_state.is_running

C27_Witness ==
  \E r \in Reqs :
    /\ ~cfg.configured
    /\ "start" \in effects[r] /\ "finish" \in effects[r]
    /\ pc[r] = "done"
    /\ deployment_state.status = "failed"
    /\ Len(get_logs(deployment_state)) = 1

\* a leader whose write_env_file failed: its stream has the warning
EnvWarned(r) ==
  \E i \in DOMAIN out[r] : out[r][i] = Rec("warning", "env", 0)

NormalizeReference(cmd, detected) ==
  LET rest == LStrip(cmd)
      lead == SubSeq(cmd, 1, Len(cmd) - Len(rest))
      form == IF StartsWith(rest, DockerComposeV1) THEN DockerComposeV1
              ELSE IF StartsWith(rest, DockerComposeV2) THEN DockerComposeV2
              ELSE <<>>
  IN IF detected = <<>> \/ form = <<>> THEN cmd
     ELSE lead \o detected \o SubSeq(rest, Len(form) + 1, Len(rest))

\* C29: for every command string and every outcome of the two probes, the
\* result of normalize_docker_compose_command is the reference: the command
\* unchanged when nothing is detected or the trimmed command starts with
\* neither form, else the command with its leading invocation alone replaced
\* by the detected form.
C29_NormalizeIsReference ==
  (fn_call.fn = "normalize" /\ fn_call.returned) =>
     fn_call.result =
       NormalizeReference(fn_call.arg,
                          get_docker_compose_command(fn_call.v2, fn_call.v1))

\* a V1 command with leading whitespace and a later occurrence of the form,
\* normalized to V2
C29_Witness ==
  /\ fn_call.fn = "normalize" /\ fn_call.returned
  /\ fn_call.v2
  /\ fn_call.arg = <<" ">> \o DockerComposeV1 \o <<" ">> \o DockerComposeV1
  /\ fn_call.result = <<" ">> \o DockerComposeV2 \o <<" ">> \o DockerComposeV1

\* position of the first character c of s, Len(s) + 1 when there is none
FirstOf(s, c) ==
  IF \E i \in 1..Len(s) : s[i] = c
    THEN CHOOSE i \in 1..Len(s) : s[i] = c /\ \A k \in 1..(i - 1) : s[k] # c
    ELSE Len(s) + 1

\* the header without its port suffix
PortStripped(h) == SubSeq(h, 1, FirstOf(h, ":") - 1)

\* a hyphen of host followed by a non-empty label, a dot and a non-empty rest
Labelled(host, i) ==
  /\ host[i] = "-"
  /\ \E d \in (i + 2)..(Len(host) - 1) :
       host[d] = "." /\ \A k \in (i + 1)..(d - 1) : host[k] # "."

RECURSIVE TokensReplaced(_, _, _)
TokensReplaced(t, host_ip, base_domain) ==
  IF t = <<>> THEN <<>>
  ELSE IF host_ip # <<>> /\ StartsWith(t, HostIpToken)
    THEN host_ip \o TokensReplaced(SubSeq(t, Len(HostIpToken) + 1, Len(t)),
                                   host_ip, base_domain)
  ELSE IF base_domain # <<>> /\ StartsWith(t, BaseDomainToken)
    THEN base_domain \o TokensReplaced(SubSeq(t, Len(BaseDomainToken) + 1, Len(t)),
                                       host_ip, base_domain)
  ELSE <<Head(t)>> \o TokensReplaced(Tail(t), host_ip, base_domain)

\* C31: substitute_service_urls returns a list of the same length and order
\* in which each URL is the template with every host-IP token replaced by
\* host_ip and every base-domain token replaced by base_domain, when present,
\* all other characters and all other fields identical.
C31_SubstituteIsReference ==
  (fn_call.fn = "substitute_service_urls" /\ fn_call.returned) =>
     LET services == fn_call.arg[1]
         result == fn_call.result
     IN /\ Len(result) = Len(services)
        /\ \A i \in 1..Len(services) :
             /\ \A k \in DOMAIN services[i] \ {"url"} :
                  k \in DOMAIN result[i] /\ result[i][k] = services[i][k]
             /\ DOMAIN result[i] = DOMAIN services[i] \cup {"url"}
             /\ result[i]["url"] =
                  TokensReplaced(UrlTemplate(services[i]), fn_call.arg[2],
                                 fn_call.arg[3])

\* a POST /deploy/stream request whose body raises before start()
FailsBeforeStart(r) == kind[r] = "stream" /\ loc[r].data = "null"

\* C32: no step of a POST /deploy/stream request that fails before start()
\* changes the tracker: it appends no record to the logs and does not call
\* finish(), whoever owns the current run.
C32_FailedRequestLeavesRunState ==
  [][\A r \in Reqs :
       (FailsBeforeStart(r)' /\ (pc'[r] # pc[r] \/ todo'[r] # todo[r])) =>
          /\ deployment_state' = deployment_state
          /\ effects'[r] \cap {"add_log", "finish"} = {}]_vars

\* the relations between the fields of the tracker, or of a snapshot of it
RunStateRelations(s) ==
  /\ s.is_running <=> s.status = "running"
  /\ s.status = "running" => (s.finished_at = 0 /\ s.started_at # 0)
  /\ s.status \in Terminal => s.finished_at # 0

\* C33: in every reachable state is_running holds exactly when status is
\* running, a running tracker has started_at set and finished_at null, a
\* terminal status has finished_at set, and every snapshot get_status() has
\* returned satisfies the same relations.
C33_RunStateConsistent ==
  /\ RunStateRelations(deployment_state)
  /\ fn_call.fn = "get_status" => RunStateRelations(fn_call.result)

\* a snapshot taken in the middle of a run that has since finished
C33_Witness ==
  /\ fn_call.fn = "get_status"
  /\ fn_call.result.status = "running"
  /\ fn_call.result.log_count > 0
  /\ deployment_state.status \in Terminal
  /\ "finish" \in effects[1]

\* the leader is past the monitoring loop and has not yet finished
AfterMonitor(r) ==
  pc[r] \in {"m_join", "m_fdrain", "m_status", "m_status2", "m_status3"}

\* C34: done is never set before the exit code; once the monitoring loop has
\* been left without reaching the ceiling the exit code is set; and no run
\* is finalized with status unknown.
C34_UnknownNeverTaken ==
  \A r \in Reqs :
    /\ result_holder[r].done => result_holder[r].returncode # None
    /\ (AfterMonitor(r) /\ ~loc[r].timed_out) =>
         result_holder[r].returncode # None
    /\ loc[r].final # "unknown"
    /\ deployment_state.status # "unknown"

\* the leader has left the loop through the debounce and tests the exit
\* code in the branch of the unknown status, after a command that failed
C34_Witness ==
  /\ pc[1] = "m_status3"
  /\ ~loc[1].timed_out
  /\ loc[1].polls_without_change >= 2
  /\ result_holder[1].done
  /\ result_holder[1].returncode \in ExitCodes \ {0}

====
